---- MODULE Spec2Model ----
(***************************************************************************)
(* Stock Analytics & Alert Engine of namanxajmera/stock-alerts.            *)
(*                                                                         *)
(* The module models the periodic batch job PeriodicChecker                *)
(* (src/features/periodic_checker.py) together with the collaborators it   *)
(* drives: the stock cache table (StockRepository), the upstream price     *)
(* client (TiingoClient), the metric computation done inside               *)
(* _process_symbol, and the alert-history table / notifier it hands its    *)
(* accumulated alerts to.                                                   *)
(*                                                                         *)
(* Three further components have specifications of their own: the retry    *)
(* loop of TiingoClient.fetch_historical_data (SpecFetch), RateLimiter     *)
(* over the api_requests table (SpecLimiter) and the stock_cache table     *)
(* under concurrent upserts (SpecStore).                                   *)
(*                                                                         *)
(* Numbers.  The program computes with IEEE doubles.  Here a close is an   *)
(* integer price, a 200-day moving average is kept as the exact sum of its *)
(* window (ma200 * 200), and a percent deviation is a fixed-point number   *)
(* in units of 1/SCALE percent, rounded down.  Rounding down is monotone,  *)
(* so  <=  and  >=  between deviations and percentiles keep the meaning    *)
(* they have in the program.                                               *)
(***************************************************************************)
EXTENDS Integers, Sequences, FiniteSets, TLC

(***************************************************************************)
(* Bounds of the model.                                                    *)
(***************************************************************************)
MaxUsers == 2
MaxSymbols == 2
MaxWatch == 2
MaxCached == 1
MaxAge == 1
\* Resolution of the fixed-point percentages: units per percent.
SCALE == 100
\* Resolution of the backoff jitter: units per second.
JitterSteps == 2
\* record_request calls made in one behaviour of the limiter.
MaxCalls == 3
\* Workers that upsert into the stock cache, and the hours the store's
\* clock runs.
MaxWorkers == 2
MaxHours == 2
\* Calls of StockService and of the engine in one behaviour of the service.
MaxServiceCalls == 3
\* The pure functions: coefficients of the generated series, the longest
\* deviation column, closes beyond the window, and the longest streak input.
MaxCoef == 2
MaxPoints == 24
MaxExtra == 3
MaxData == 5
\* Alerts in one user's batch, and clock ticks during a dispatch.
MaxBatch == 2
MaxDispatchTicks == 2

(***************************************************************************)
(* Program constants.                                                      *)
(***************************************************************************)
WINDOW == 200
CACHE_HOURS == 1

Users == 1..MaxUsers
Symbols == 1..MaxSymbols

NaN == "NaN"

(***************************************************************************)
(* Price series the upstream can answer with.  A series is a sequence of   *)
(* adjusted closes, oldest first.                                          *)
(***************************************************************************)
Kinds == {"flat", "drop", "spike", "cycle", "step"}

CyclePrice(i) ==
    CASE i % 4 = 1 -> 90
      [] i % 4 = 2 -> 100
      [] i % 4 = 3 -> 110
      [] OTHER     -> 100

ClosesOf(kind, n) ==
    [i \in 1..n |->
        CASE kind = "flat"  -> 100
          [] kind = "drop"  -> IF i = n THEN 70 ELSE 100
          [] kind = "spike" -> IF i = n THEN 130 ELSE 100
          [] kind = "step"  -> IF 2 * i <= n THEN 100 ELSE 150
          [] OTHER          -> CyclePrice(i)]

RECURSIVE SumRange(_, _, _)
SumRange(s, lo, hi) ==
    IF lo > hi THEN 0
    ELSE IF lo = hi THEN s[lo]
    ELSE LET mid == (lo + hi) \div 2
         IN  SumRange(s, lo, mid) + SumRange(s, mid + 1, hi)

\* Mutant: a window of one day fewer.
RollingSumShort(s, i) ==
    IF i < WINDOW THEN NaN ELSE SumRange(s, i - WINDOW + 2, i)

\* Close.rolling(window=200).mean(), kept as the window sum: NaN for the
\* first WINDOW - 1 rows.
RollingSum(s, i) == IF i < WINDOW THEN NaN ELSE SumRange(s, i - WINDOW + 1, i)

\* ((price - ma) / ma) * 100 with ma = sum / WINDOW, in 1/SCALE percent.
PctDiff(price, sum) == ((price * WINDOW - sum) * 100 * SCALE) \div sum

\* historical_data["pct_diff"].dropna(): the defined deviations, in date order.
ValidDiffs(s) ==
    [k \in 1..(IF Len(s) < WINDOW THEN 0 ELSE Len(s) - WINDOW + 1) |->
        PctDiff(s[k + WINDOW - 1], RollingSum(s, k + WINDOW - 1))]

\* The element of rank r (1 = smallest) of a non-empty sequence of numbers.
Ranked(v, r) ==
    CHOOSE x \in {v[i] : i \in 1..Len(v)} :
        /\ Cardinality({i \in 1..Len(v) : v[i] < x}) < r
        /\ Cardinality({i \in 1..Len(v) : v[i] <= x}) >= r

\* Mutant: the position counted from the largest value.
QuantileFromTop(v, q) ==
    LET n    == Len(v)
        pos  == (n - 1) * (100 - q)
        lo   == pos \div 100
        frac == pos % 100
        a    == Ranked(v, lo + 1)
        b    == IF lo + 2 <= n THEN Ranked(v, lo + 2) ELSE a
    IN  a + ((b - a) * frac) \div 100

\* Series.quantile(q / 100), linear interpolation between the two nearest
\* order statistics at position (n - 1) * q / 100.
Quantile(v, q) ==
    LET n    == Len(v)
        pos  == (n - 1) * q
        lo   == pos \div 100
        frac == pos % 100
        a    == Ranked(v, lo + 1)
        b    == IF lo + 2 <= n THEN Ranked(v, lo + 2) ELSE a
    IN  a + ((b - a) * frac) \div 100

\* Python's None, and the absent row of a table.
None == [none |-> TRUE]

\* A fetched frame whose Close column float() cannot convert.
BadFrame == [bad |-> TRUE]

\* No fetch was made.
NoFetch == [no_fetch |-> TRUE]

\* The weekday before the gate has read the clock.
NoDay == 0 - 1

(***************************************************************************)
(* What TiingoClient.fetch_historical_data can hand to the engine: None    *)
(* (retries exhausted, 404, empty body, ...), a frame whose Close column   *)
(* cannot be converted by float() (BadFrame), or a frame of closes.        *)
(***************************************************************************)
FetchedSeries ==
    { [kind |-> "flat",  n |-> WINDOW - 1],
      [kind |-> "flat",  n |-> WINDOW],
      [kind |-> "drop",  n |-> WINDOW + 18],
      [kind |-> "cycle", n |-> WINDOW + 18],
      [kind |-> "drop",  n |-> WINDOW + 19],
      [kind |-> "spike", n |-> WINDOW + 19],
      [kind |-> "cycle", n |-> WINDOW + 19],
      [kind |-> "cycle", n |-> WINDOW + 20],
      [kind |-> "cycle", n |-> WINDOW + 21] }

FetchOutcomes == {None, BadFrame} \cup FetchedSeries

Closes(f) == ClosesOf(f.kind, f.n)

(***************************************************************************)
(* The stock_cache table.  A row is keyed by symbol and holds last_price,  *)
(* ma_200 (as the window sum), the JSON payload and its age in hours       *)
(* (NOW() - last_check).                                                   *)
(***************************************************************************)
NoRow == [no_row |-> TRUE]

\* A data_json text that is not a JSON document.
Undecodable == [undecodable |-> TRUE]

\* json.loads: a text is kept as the document it encodes; the text "null"
\* decodes to None, and a text that is no document raises JSONDecodeError.
json_loads(text) ==
    IF text = Undecodable
    THEN [raised |-> TRUE]
    ELSE [raised |-> FALSE, value |-> text]

\* A number that may be missing (NaN in a frame, null in JSON).
Num(x) == [value |-> x]

\* time_series_data of calculate_metrics: one entry per date of the complete
\* frame, oldest first, NaN stored as None.  Entry i of n is the entry of
\* the day i - n, counted from today.
TimeSeriesData(s) ==
    [i \in 1..Len(s) |->
        [price    |-> Num(s[i]),
         ma_200   |-> IF i < WINDOW THEN None ELSE Num(RollingSum(s, i)),
         pct_diff |-> IF i < WINDOW THEN None
                      ELSE Num(PctDiff(s[i], RollingSum(s, i)))]]

\* cache_data of calculate_metrics.  The time_series map is kept as the
\* history it was built from (TimeSeriesOf gives its entries); last_updated
\* is the instant of the write, which the row's age records, and the
\* payload keeps the key.
CacheData(current_price, current_ma_200, percentiles, previous_close, time_series_data) ==
    [price          |-> current_price,
     ma_200         |-> current_ma_200,
     percentiles    |-> percentiles,
     previous_close |-> previous_close,
     time_series    |-> time_series_data,
     last_updated   |-> "isoformat"]

\* The payload calculate_metrics stores for a history f.
ServiceCacheData(f) ==
    LET s == Closes(f)
        v == ValidDiffs(s)
    IN  CacheData(s[Len(s)], RollingSum(s, Len(s)),
                  [p16 |-> Quantile(v, 16), p84 |-> Quantile(v, 84)],
                  s[Len(s) - 1], f)

\* Payload written by the engine after a fresh fetch.
EngineCacheData(price, ma, pct, p16, p84, lo, hi) ==
    [price          |-> price,
     ma_200         |-> ma,
     pct_diff       |-> pct,
     percentile_16  |-> p16,
     percentile_84  |-> p84,
     historical_min |-> lo,
     historical_max |-> hi]

\* An upsert that leaves the payload of an existing row in place.
update_stock_cache_keeps_payload(cache, symbol, price, ma_200, data_json) ==
    [cache EXCEPT ![symbol] =
        [last_price |-> price, ma_200 |-> ma_200,
         data_json |-> IF cache[symbol] = NoRow THEN data_json ELSE cache[symbol].data_json,
         age |-> 0]]

\* StockRepository.update_stock_cache: insert or replace the whole row,
\* last_check = NOW().
update_stock_cache(cache, symbol, price, ma_200, data_json) ==
    [cache EXCEPT ![symbol] =
        [last_price |-> price, ma_200 |-> ma_200, data_json |-> data_json, age |-> 0]]

\* StockRepository.get_fresh_cache: last_check > NOW() - max_age_hours.
get_fresh_cache(cache, symbol, max_age_hours) ==
    IF cache[symbol] # NoRow /\ cache[symbol].age < max_age_hours
    THEN cache[symbol]
    ELSE None

\* Rows calculate_metrics has stored for a symbol before the run.
CachedSeries ==
    { [kind |-> "cycle", n |-> WINDOW + 19],
      [kind |-> "cycle", n |-> WINDOW + 20],
      [kind |-> "cycle", n |-> WINDOW + 21] }

ServiceRow(f, age) ==
    LET s == Closes(f)
    IN  [last_price |-> s[Len(s)],
         ma_200     |-> RollingSum(s, Len(s)),
         data_json  |-> ServiceCacheData(f),
         age        |-> age]

(***************************************************************************)
(* The watchlist: rows of watchlist_items joined with the users that have  *)
(* notifications enabled, in the order the query returns them.             *)
(***************************************************************************)
WatchRows == [user_id : Users, symbol : Symbols, is_owned : BOOLEAN]

RECURSIVE SeqsUpTo(_, _)
SeqsUpTo(S, n) ==
    IF n = 0 THEN {<<>>}
    ELSE LET shorter == SeqsUpTo(S, n - 1)
         IN  shorter \cup {Append(q, x) : q \in shorter, x \in S}

\* (user_id, symbol) is the key of watchlist_items.
Watchlists ==
    { w \in SeqsUpTo(WatchRows, MaxWatch) :
        \A i, j \in 1..Len(w) :
            (w[i].user_id = w[j].user_id /\ w[i].symbol = w[j].symbol) => i = j }

(***************************************************************************)
(* Config (src/utils/config.py): the attributes _load_config sets.  Reading *)
(* any other attribute of the config object raises AttributeError.         *)
(***************************************************************************)
ConfigAttributes ==
    { "DATABASE_URL", "TELEGRAM_BOT_TOKEN", "TELEGRAM_WEBHOOK_SECRET",
      "TIINGO_API_TOKEN", "ADMIN_USERNAME", "ADMIN_PASSWORD", "ADMIN_API_KEY",
      "API_SECRET_KEY", "CACHE_HOURS", "YF_REQUEST_DELAY", "PORT", "DEBUG",
      "LOG_LEVEL" }

(***************************************************************************)
(* PeriodicChecker (src/features/periodic_checker.py).                     *)
(***************************************************************************)
\* 0 = Monday ... 6 = Sunday
Weekdays == 0..6

\* Mutant: Friday taken for a valid day.
valid_days_with_friday == {0, 1, 2, 3, 4, 6}

valid_days == {0, 1, 2, 3, 6}

\* The weekday of datetime.now() in the zone of the host while the UTC
\* weekday is utc_today: the day before, the same day or the day after.
LocalDays(utc_today) == {(utc_today + 6) % 7, utc_today, (utc_today + 1) % 7}

\* symbol_user_map: the symbols in the order they first appear in the
\* watchlist, each with its list of {user_id, is_owned}.
RECURSIVE SymbolOrder(_)
SymbolOrder(w) ==
    IF w = <<>> THEN <<>>
    ELSE LET init == SymbolOrder(SubSeq(w, 1, Len(w) - 1))
             last == w[Len(w)].symbol
         IN  IF \E i \in 1..Len(init) : init[i] = last THEN init ELSE Append(init, last)

UserDataList(w, symbol) ==
    LET Watches(row) == row.symbol = symbol
        rows == SelectSeq(w, Watches)
    IN  [i \in 1..Len(rows) |->
            [user_id |-> rows[i].user_id, is_owned |-> rows[i].is_owned]]

GroupBySymbol(w) ==
    LET order == SymbolOrder(w)
    IN  [i \in 1..Len(order) |->
            [symbol |-> order[i], user_data_list |-> UserDataList(w, order[i])]]

\* The dictionary _process_symbol returns for a triggering symbol.
Alert(symbol, price, pct, p16, p84) ==
    [symbol        |-> symbol,
     price         |-> price,
     percentile    |-> pct,
     percentile_16 |-> p16,
     percentile_84 |-> p84]

\* The trigger test of the cache branch and of the fresh branch.
CachedTrigger(pct, p16, p84) == pct <= p16 \/ pct >= p84

\* Mutant: the band boundaries taken as exclusive.
FreshTriggerStrict(pct, p16, p84) == pct < p16 \/ pct > p84

FreshTrigger(pct, p16, p84) == pct <= p16 \/ pct >= p84

\* The cache branch of _process_symbol.  returned = FALSE means control
\* falls through to the fetch; raised = TRUE means an exception other than
\* JSONDecodeError and KeyError left the branch for the except clause of
\* _process_symbol, which returns None.
CacheBranch(symbol, cached_data) ==
    IF cached_data = None
    THEN [returned |-> FALSE, alert |-> None, raised |-> FALSE]
    ELSE LET decoded == json_loads(cached_data.data_json)
         IN  IF decoded.raised
             THEN [returned |-> FALSE, alert |-> None, raised |-> FALSE]
             ELSE IF decoded.value = None
             THEN [returned |-> TRUE, alert |-> None, raised |-> TRUE]
             ELSE LET cache_data == decoded.value
                  IN  IF "percentiles" \in DOMAIN cache_data
                      THEN LET percentile_16 == cache_data.percentiles.p16
                               percentile_84 == cache_data.percentiles.p84
                               current_pct_diff ==
                                   PctDiff(cached_data.last_price, cached_data.ma_200)
                           IN  [returned |-> TRUE,
                                alert |->
                                   IF CachedTrigger(current_pct_diff, percentile_16,
                                                    percentile_84)
                                   THEN Alert(symbol, cached_data.last_price,
                                              current_pct_diff, percentile_16,
                                              percentile_84)
                                   ELSE None,
                                raised |-> FALSE]
                      ELSE [returned |-> FALSE, alert |-> None, raised |-> FALSE]

\* The metrics the fresh branch computes from a fetched frame.
EngineMetrics(s) ==
    LET valid_diffs == ValidDiffs(s)
        n == Len(valid_diffs)
    IN  IF n = 0
        THEN [n_valid |-> 0, current_price |-> s[Len(s)]]
        ELSE [n_valid          |-> n,
              current_price    |-> s[Len(s)],
              current_ma_200   |-> RollingSum(s, Len(s)),
              current_pct_diff |-> PctDiff(s[Len(s)], RollingSum(s, Len(s))),
              percentile_16    |-> Quantile(valid_diffs, 16),
              percentile_84    |-> Quantile(valid_diffs, 84),
              historical_min   |-> Ranked(valid_diffs, 1),
              historical_max   |-> Ranked(valid_diffs, n)]

\* The histories the upstream serves to StockService: fewer than two years
\* of daily closes, so that a "2y" and a "max" request get the same rows.
ServiceHistories ==
    { [kind |-> "step",  n |-> 3 * WINDOW],
      [kind |-> "cycle", n |-> WINDOW + 10],
      [kind |-> "flat",  n |-> WINDOW + 20] }

MetricsOf == [f \in FetchedSeries \cup ServiceHistories |-> EngineMetrics(Closes(f))]

\* Mutant: the cache update skipped below 20 defined deviations.
ReachesCacheUpdateMin20(m) == m.n_valid >= 20

\* Whether the fresh branch reaches update_stock_cache: it returns before
\* it when valid_diffs is empty.
ReachesCacheUpdate(m) == m.n_valid # 0

\* The fresh branch of _process_symbol, from the fetch result on.
\*   write:  the arguments of update_stock_cache, or None when it is not called
\*   raised: an exception was caught by the except clause of _process_symbol
FreshBranch(symbol, historical_data) ==
    IF historical_data = None
    THEN [alert |-> None, write |-> None, raised |-> FALSE]
    ELSE IF historical_data = BadFrame
    THEN [alert |-> None, write |-> None, raised |-> TRUE]
    ELSE LET m == MetricsOf[historical_data]
         IN  IF ~ReachesCacheUpdate(m)
             THEN [alert |-> None, write |-> None, raised |-> FALSE]
             ELSE [alert |->
                      IF FreshTrigger(m.current_pct_diff, m.percentile_16, m.percentile_84)
                      THEN Alert(symbol, m.current_price, m.current_pct_diff,
                                 m.percentile_16, m.percentile_84)
                      ELSE None,
                   write |->
                      [price     |-> m.current_price,
                       ma_200    |-> m.current_ma_200,
                       data_json |->
                          EngineCacheData(m.current_price, m.current_ma_200,
                                          m.current_pct_diff, m.percentile_16,
                                          m.percentile_84, m.historical_min,
                                          m.historical_max)],
                   raised |-> FALSE]

\* Mutant: every user's copy tagged with the flag of the first user of the
\* symbol.
AccumulateFirstOwner(alerts, alert_data, user_data_list) ==
    [u \in DOMAIN alerts |->
        IF \E i \in 1..Len(user_data_list) : user_data_list[i].user_id = u
        THEN Append(alerts[u],
                    [symbol        |-> alert_data.symbol,
                     price         |-> alert_data.price,
                     percentile    |-> alert_data.percentile,
                     percentile_16 |-> alert_data.percentile_16,
                     percentile_84 |-> alert_data.percentile_84,
                     is_owned      |-> user_data_list[1].is_owned])
        ELSE alerts[u]]

\* Appending a symbol's alert, tagged with is_owned, to the accumulator of
\* every user of the symbol.
RECURSIVE Accumulate(_, _, _)
Accumulate(alerts, alert_data, user_data_list) ==
    IF user_data_list = <<>> THEN alerts
    ELSE LET user_data == Head(user_data_list)
             alert_with_ownership ==
                 [symbol        |-> alert_data.symbol,
                  price         |-> alert_data.price,
                  percentile    |-> alert_data.percentile,
                  percentile_16 |-> alert_data.percentile_16,
                  percentile_84 |-> alert_data.percentile_84,
                  is_owned      |-> user_data.is_owned]
         IN  Accumulate(
                 [alerts EXCEPT ![user_data.user_id] = Append(@, alert_with_ownership)],
                 alert_data, Tail(user_data_list))

\* Mutant: the users of a symbol notified as soon as the symbol triggers.
NotifyInLoop(calls, alert_data, user_data_list) ==
    [u \in DOMAIN calls |->
        IF /\ alert_data # None
           /\ \E i \in 1..Len(user_data_list) : user_data_list[i].user_id = u
        THEN calls[u] + 1
        ELSE calls[u]]

\* The notifier calls after one pass of the symbol loop: the pass appends
\* to user_alerts and calls no notifier.
LoopNotifierCalls(calls, alert_data, user_data_list) == calls

VARIABLES
    watchlist,        \* rows get_active_watchlists returns
    stock_cache,      \* the stock_cache table
    pc,               \* where check_watchlists stands
    today,            \* the UTC weekday read at the gate of the current run
    symbol_user_map,  \* the grouped watchlist of the current run
    idx,              \* index of the loop's current symbol in symbol_user_map
    user_alerts,      \* the per-user accumulator of the current run
    processed,        \* what _process_symbol did for each symbol of the run, in order
    fetches,          \* fetch_historical_data calls per symbol in the current run
    cache_writes,     \* update_stock_cache calls per symbol in the current run
    notifier_calls,   \* send_batched_alerts calls per user in the current run
    alert_history,    \* alert_history rows written in the current run
    error_logged      \* the run ended in the except clause of check_watchlists

\* The state of TiingoClient.fetch_historical_data (one call).
VARIABLES
    t_pc,        \* where the call stands
    t_max,       \* the argument max_retries of the call
    t_attempt,   \* the loop variable attempt
    t_trace,     \* what the call did so far: requests, sleeps, limiter calls
    t_result     \* what the call returned

\* The state of RateLimiter and of the api_requests table it reads.
VARIABLES
    l_now,       \* the clock, as an index into Instants
    l_log,       \* api_requests: rows per instant
    l_answer,    \* the last answer of can_make_request
    l_usage,     \* the last answer of get_usage_stats
    l_record,    \* how the last record_request ended
    l_left       \* record_request calls the callers still make

\* The state of the stock_cache table under concurrent workers.
VARIABLES
    c_table,     \* stock_cache rows by stored key
    c_now,       \* the store's clock, in hours
    c_read,      \* the last get_fresh_cache call and its answer
    c_calls      \* the upsert calls of the workers

\* The state StockService works on, and its last call.
VARIABLES
    s_cache,     \* the stock_cache table
    s_stats,     \* the trading_stats_cache table, by symbol and period
    s_upstream,  \* what fetch_historical_data returns to the service
    s_cause,     \* what the upstream did to the request of the client
    s_last,      \* the last call and how it ended
    s_calls      \* calls made so far

\* The pure functions, applied to one input.
VARIABLES
    k_op,        \* the function applied
    k_in,        \* its input
    k_out        \* its result, None before it is applied

\* The state of _send_batched_alerts and of WebhookHandler.send_batched_alert.
VARIABLES
    d_user_alerts,   \* the accumulator handed to _send_batched_alerts
    d_queue,         \* the users the loop has still to visit
    d_last_notified, \* users.last_notified
    d_history,       \* rows of alert_history
    d_messages,      \* the messages delivered, in order
    d_now,           \* the clock
    d_results,       \* what send_batched_alerts returned for the users visited
    d_today          \* the UTC weekday the day gate of the run saw

\* The runs of check_watchlists a deployment starts.
VARIABLES
    j_runs,      \* the runs started so far, each with what it did
    j_weekday    \* the weekday, in UTC

\* Concurrent callers of the rate limiter over the shared api_requests table.
VARIABLES
    q_pc,        \* where each caller is
    q_log,       \* the api_requests table
    q_left       \* upstream calls each caller may still start

engine_vars ==
    <<watchlist, stock_cache, pc, today, symbol_user_map, idx, user_alerts,
      processed, fetches, cache_writes, notifier_calls, alert_history,
      error_logged>>

fetch_vars == <<t_pc, t_max, t_attempt, t_trace, t_result>>

limiter_vars == <<l_now, l_log, l_answer, l_usage, l_record, l_left>>

store_vars == <<c_table, c_now, c_read, c_calls>>

service_vars == <<s_cache, s_stats, s_upstream, s_cause, s_last, s_calls>>

calc_vars == <<k_op, k_in, k_out>>

dispatch_vars ==
    <<d_user_alerts, d_queue, d_last_notified, d_history, d_messages, d_now,
      d_results, d_today>>

jobs_vars == <<j_runs, j_weekday>>

callers_vars == <<q_pc, q_log, q_left>>

vars ==
    <<engine_vars, fetch_vars, limiter_vars, store_vars, service_vars, calc_vars,
      dispatch_vars, jobs_vars, callers_vars>>

\* A component that is not running: its variables at rest.
FetchIdle ==
    /\ t_pc = "idle"
    /\ t_max = 0
    /\ t_attempt = 0
    /\ t_trace = <<>>
    /\ t_result = NoFetch

LimiterIdle ==
    /\ l_now = 0
    /\ l_log = <<>>
    /\ l_answer = None
    /\ l_usage = None
    /\ l_record = None
    /\ l_left = 0

StoreIdle ==
    /\ c_table = <<>>
    /\ c_now = 0
    /\ c_read = None
    /\ c_calls = <<>>

ServiceIdle ==
    /\ s_cache = <<>>
    /\ s_stats = <<>>
    /\ s_upstream = None
    /\ s_cause = "none"
    /\ s_last = None
    /\ s_calls = 0

CalcIdle ==
    /\ k_op = "none"
    /\ k_in = None
    /\ k_out = None

DispatchIdle ==
    /\ d_user_alerts = <<>>
    /\ d_queue = <<>>
    /\ d_last_notified = <<>>
    /\ d_history = <<>>
    /\ d_messages = <<>>
    /\ d_now = 0
    /\ d_results = <<>>
    /\ d_today = 0

JobsIdle ==
    /\ j_runs = <<>>
    /\ j_weekday = 0

CallersIdle ==
    /\ q_pc = <<>>
    /\ q_log = <<>>
    /\ q_left = <<>>

run_vars ==
    <<symbol_user_map, idx, user_alerts, processed, fetches, cache_writes,
      notifier_calls, alert_history, error_logged>>

InitialCaches ==
    { c \in [Symbols -> {NoRow} \cup
                 {ServiceRow(f, a) : f \in CachedSeries, a \in 0..MaxAge}] :
        Cardinality({s \in Symbols : c[s] # NoRow}) <= MaxCached }

Init ==
    /\ watchlist \in Watchlists
    /\ stock_cache \in InitialCaches
    /\ pc = "idle"
    /\ today = NoDay
    /\ symbol_user_map = <<>>
    /\ idx = 0
    /\ user_alerts = [u \in Users |-> <<>>]
    /\ processed = <<>>
    /\ fetches = [s \in Symbols |-> 0]
    /\ cache_writes = [s \in Symbols |-> 0]
    /\ notifier_calls = [u \in Users |-> 0]
    /\ alert_history = <<>>
    /\ error_logged = FALSE
    /\ FetchIdle /\ LimiterIdle /\ StoreIdle /\ ServiceIdle
    /\ CalcIdle /\ DispatchIdle /\ JobsIdle /\ CallersIdle

\* The scheduler invokes check_watchlists.
StartRun ==
    /\ pc \in {"idle", "done"}
    /\ pc' = "day_gate"
    /\ today' = NoDay
    /\ symbol_user_map' = <<>>
    /\ idx' = 0
    /\ user_alerts' = [u \in Users |-> <<>>]
    /\ processed' = <<>>
    /\ fetches' = [s \in Symbols |-> 0]
    /\ cache_writes' = [s \in Symbols |-> 0]
    /\ notifier_calls' = [u \in Users |-> 0]
    /\ alert_history' = <<>>
    /\ error_logged' = FALSE
    /\ UNCHANGED <<watchlist, stock_cache>>
    /\ UNCHANGED <<fetch_vars, limiter_vars, store_vars, service_vars, calc_vars, dispatch_vars, jobs_vars, callers_vars>>

\* today = datetime.utcnow().weekday(); return unless it is a valid day.
DayGate ==
    /\ pc = "day_gate"
    /\ \E d \in Weekdays :
        /\ today' = d
        /\ pc' = IF d \notin valid_days THEN "done" ELSE "load"
    /\ UNCHANGED <<watchlist, stock_cache, run_vars>>
    /\ UNCHANGED <<fetch_vars, limiter_vars, store_vars, service_vars, calc_vars, dispatch_vars, jobs_vars, callers_vars>>

\* watchlists = get_active_watchlists(); return if empty; group by symbol.
LoadWatchlists ==
    /\ pc = "load"
    /\ IF watchlist = <<>>
       THEN /\ pc' = "done"
            /\ UNCHANGED <<symbol_user_map, idx>>
       ELSE /\ symbol_user_map' = GroupBySymbol(watchlist)
            /\ idx' = 1
            /\ pc' = "loop"
    /\ UNCHANGED <<watchlist, stock_cache, today, user_alerts, processed, fetches,
                   cache_writes, notifier_calls, alert_history, error_logged>>
    /\ UNCHANGED <<fetch_vars, limiter_vars, store_vars, service_vars, calc_vars, dispatch_vars, jobs_vars, callers_vars>>

\* One pass of the loop body up to the sleep: _process_symbol for the
\* current symbol, then the fan-out of its alert to the symbol's users.
ProcessSymbol ==
    /\ pc = "loop"
    /\ idx <= Len(symbol_user_map)
    /\ LET symbol == symbol_user_map[idx].symbol
           user_data_list == symbol_user_map[idx].user_data_list
           cached_data == get_fresh_cache(stock_cache, symbol, CACHE_HOURS)
           hit == CacheBranch(symbol, cached_data)
       IN  IF hit.returned
           THEN /\ user_alerts' =
                       IF hit.alert # None
                       THEN Accumulate(user_alerts, hit.alert, user_data_list)
                       ELSE user_alerts
                /\ processed' = Append(processed,
                       [symbol |-> symbol, path |-> "cache", hit |-> TRUE,
                        alert |-> hit.alert, raised |-> hit.raised, fetched |-> NoFetch])
                /\ UNCHANGED <<stock_cache, fetches, cache_writes>>
           ELSE \E historical_data \in FetchOutcomes :
                   LET r == FreshBranch(symbol, historical_data)
                   IN  /\ fetches' = [fetches EXCEPT ![symbol] = @ + 1]
                       /\ IF r.write # None
                          THEN /\ stock_cache' =
                                      update_stock_cache(stock_cache, symbol, r.write.price,
                                                         r.write.ma_200, r.write.data_json)
                               /\ cache_writes' = [cache_writes EXCEPT ![symbol] = @ + 1]
                          ELSE UNCHANGED <<stock_cache, cache_writes>>
                       /\ user_alerts' =
                              IF r.alert # None
                              THEN Accumulate(user_alerts, r.alert, user_data_list)
                              ELSE user_alerts
                       /\ processed' = Append(processed,
                              [symbol |-> symbol, path |-> "fresh",
                               hit |-> cached_data # None, alert |-> r.alert,
                               raised |-> r.raised, fetched |-> historical_data])
    /\ notifier_calls' =
          LoopNotifierCalls(notifier_calls, processed'[Len(processed')].alert,
                            symbol_user_map[idx].user_data_list)
    /\ pc' = "delay"
    /\ UNCHANGED <<watchlist, today, symbol_user_map, idx, alert_history,
                   error_logged>>
    /\ UNCHANGED <<fetch_vars, limiter_vars, store_vars, service_vars, calc_vars, dispatch_vars, jobs_vars, callers_vars>>

\* time.sleep(config.TIINGO_REQUEST_DELAY): the attribute lookup comes
\* first; when it fails the AttributeError leaves the loop.
InterSymbolDelay ==
    /\ pc = "delay"
    /\ IF "TIINGO_REQUEST_DELAY" \in ConfigAttributes
       THEN /\ idx' = idx + 1
            /\ pc' = IF idx + 1 <= Len(symbol_user_map) THEN "loop" ELSE "dispatch"
       ELSE /\ pc' = "except"
            /\ UNCHANGED idx
    /\ UNCHANGED <<watchlist, stock_cache, today, symbol_user_map, user_alerts,
                   processed, fetches, cache_writes, notifier_calls, alert_history,
                   error_logged>>
    /\ UNCHANGED <<fetch_vars, limiter_vars, store_vars, service_vars, calc_vars, dispatch_vars, jobs_vars, callers_vars>>

\* Mutant: the handler starts the run again.
RunErrorExitRetries == "day_gate"

\* Where the except clause of check_watchlists leaves the run: it logs
\* and falls off the end of the method.
RunErrorExit == "done"

\* except Exception: logger.error, db.log_event; the run ends.
HandleRunError ==
    /\ pc = "except"
    /\ error_logged' = TRUE
    /\ pc' = RunErrorExit
    /\ UNCHANGED <<watchlist, stock_cache, today, symbol_user_map, idx, user_alerts,
                   processed, fetches, cache_writes, notifier_calls, alert_history>>
    /\ UNCHANGED <<fetch_vars, limiter_vars, store_vars, service_vars, calc_vars, dispatch_vars, jobs_vars, callers_vars>>

\* An hour passes: every cached row is an hour older.
Tick ==
    /\ \E s \in Symbols : stock_cache[s] # NoRow /\ stock_cache[s].age < MaxAge
    /\ stock_cache' =
          [s \in Symbols |->
              IF stock_cache[s] # NoRow /\ stock_cache[s].age < MaxAge
              THEN [stock_cache[s] EXCEPT !.age = @ + 1]
              ELSE stock_cache[s]]
    /\ UNCHANGED <<watchlist, pc, today, run_vars>>
    /\ UNCHANGED <<fetch_vars, limiter_vars, store_vars, service_vars, calc_vars, dispatch_vars, jobs_vars, callers_vars>>

Next ==
    \/ StartRun
    \/ DayGate
    \/ LoadWatchlists
    \/ ProcessSymbol
    \/ InterSymbolDelay
    \/ HandleRunError
    \/ Tick

Spec == Init /\ [][Next]_vars

\* The engine at rest, for the specifications of the other components.
EngineIdle ==
    /\ watchlist = <<>>
    /\ stock_cache = [s \in Symbols |-> NoRow]
    /\ pc = "idle"
    /\ today = NoDay
    /\ symbol_user_map = <<>>
    /\ idx = 0
    /\ user_alerts = [u \in Users |-> <<>>]
    /\ processed = <<>>
    /\ fetches = [s \in Symbols |-> 0]
    /\ cache_writes = [s \in Symbols |-> 0]
    /\ notifier_calls = [u \in Users |-> 0]
    /\ alert_history = <<>>
    /\ error_logged = FALSE

(***************************************************************************)
(* TiingoClient.fetch_historical_data: the retry loop.                     *)
(*                                                                         *)
(* A backoff is kept in units of 1/JitterSteps second: 2^attempt seconds   *)
(* plus a jitter of random.uniform(0, 1), which is a + (b - a) * random()  *)
(* with random() in [0, 1).                                                *)
(***************************************************************************)
max_retries == 3

\* The values callers pass for max_retries, up to the default.
RetryArguments == 0..max_retries

\* What one requests.get plus raise_for_status, response.json and
\* _process_tiingo_data can come to.
HttpOutcomes ==
    {"200_data", "200_empty", "200_malformed", "429", "404", "403", "500",
     "connection_error", "timeout", "request_exception"}

\* The branch of the loop body an outcome takes: return the frame, return
\* None, or (attempts permitting) back off and go round again.
HandlingRetries404(outcome) ==
    CASE outcome = "200_data" -> "return_data"
      [] outcome \in {"429", "404", "500", "connection_error", "timeout"} -> "retry"
      [] OTHER -> "return_none"

Handling(outcome) ==
    CASE outcome = "200_data" -> "return_data"
      [] outcome \in {"429", "500", "connection_error", "timeout"} -> "retry"
      [] OTHER -> "return_none"

Jitters == 0..(JitterSteps - 1)

\* Mutant: a backoff after the last attempt as well.
MayBackOffAfterLast(attempt, m) == attempt < m

\* The guard of every backoff: attempt < max_retries - 1.
MayBackOff(attempt, m) == attempt < m - 1

backoff_time(attempt, jitter) == (2 ^ attempt) * JitterSteps + jitter

GetEvent(outcome, data) == [ev |-> "get", outcome |-> outcome, data |-> data]

SleepEvent(delay) == [ev |-> "sleep", delay |-> delay]

InitFetch ==
    /\ EngineIdle /\ LimiterIdle /\ StoreIdle /\ ServiceIdle
    /\ CalcIdle /\ DispatchIdle /\ JobsIdle /\ CallersIdle
    /\ FetchIdle

\* fetch_historical_data is called: the loop starts with attempt 0; over
\* range(0) the body never runs and the function returns None at once.
FetchCall ==
    /\ t_pc = "idle"
    /\ \E m \in RetryArguments :
          /\ t_max' = m
          /\ IF m = 0
             THEN t_pc' = "done" /\ t_result' = None
             ELSE t_pc' = "loop" /\ UNCHANGED t_result
    /\ t_attempt' = 0
    /\ UNCHANGED t_trace
    /\ UNCHANGED <<engine_vars, limiter_vars, store_vars, service_vars, calc_vars, dispatch_vars, jobs_vars, callers_vars>>

\* One pass of the loop body: the request, then the branch its outcome
\* takes.  A pass that neither returns nor continues ends the iteration;
\* after the last iteration the function returns None.
FetchAttempt ==
    /\ t_pc = "loop"
    /\ t_attempt < t_max
    /\ \E outcome \in HttpOutcomes, data \in FetchedSeries, jitter \in Jitters :
          LET got == Append(t_trace,
                        GetEvent(outcome, IF outcome = "200_data" THEN data ELSE None))
              h == Handling(outcome)
          IN  CASE h = "return_data" ->
                     /\ t_trace' = got
                     /\ t_result' = data
                     /\ t_pc' = "done"
                     /\ UNCHANGED t_attempt
                [] h = "return_none" ->
                     /\ t_trace' = got
                     /\ t_result' = None
                     /\ t_pc' = "done"
                     /\ UNCHANGED t_attempt
                [] OTHER ->
                     IF MayBackOff(t_attempt, t_max)
                     THEN /\ t_trace' = Append(got, SleepEvent(backoff_time(t_attempt, jitter)))
                          /\ t_attempt' = t_attempt + 1
                          /\ UNCHANGED <<t_pc, t_result>>
                     ELSE /\ t_trace' = got
                          /\ t_attempt' = t_attempt + 1
                          /\ t_result' = None
                          /\ t_pc' = "done"
    /\ UNCHANGED t_max
    /\ UNCHANGED <<engine_vars, limiter_vars, store_vars, service_vars, calc_vars, dispatch_vars, jobs_vars, callers_vars>>

NextFetch == FetchCall \/ FetchAttempt

SpecFetch == InitFetch /\ [][NextFetch]_vars

\* A call that has started goes on: requests.get carries timeout=30 and
\* every sleep is finite, so each pass of the loop ends.
SpecFetchLive == SpecFetch /\ WF_vars(FetchAttempt)

(***************************************************************************)
(* RateLimiter over the api_requests table.                                *)
(*                                                                         *)
(* Time is in minutes since a midnight.  The table is kept as the number   *)
(* of rows per instant; the first instant stands for the rows written      *)
(* earlier in the day.                                                     *)
(***************************************************************************)
HOURLY_LIMIT == 50
DAILY_LIMIT == 1000
SAFE_HOURLY_LIMIT == 48
SAFE_DAILY_LIMIT == 980

\* 10:30, 22:59, 23:00, 23:59 and 00:00 of the next day.
Instants == <<630, 1379, 1380, 1439, 1440>>

InstantIds == 1..Len(Instants)

RECURSIVE SumRows(_, _)
SumRows(log, ids) ==
    IF ids = {} THEN 0
    ELSE LET i == CHOOSE x \in ids : TRUE
         IN  log[i] + SumRows(log, ids \ {i})

\* SELECT COUNT(*) ... WHERE request_time >= start AND request_time <= end.
get_api_request_count(log, start_time, end_time) ==
    SumRows(log, {i \in InstantIds : Instants[i] >= start_time /\ Instants[i] <= end_time})

\* current_time.replace(minute=0, second=0, microsecond=0)
hour_start(t) == t - (t % 60)

\* current_time.replace(hour=0, minute=0, second=0, microsecond=0)
day_start(t) == t - (t % 1440)

\* A count whose read raises is reported as 0.
_get_hourly_count_fail_closed(log, current_time, read_ok) ==
    IF read_ok
    THEN get_api_request_count(log, hour_start(current_time), current_time)
    ELSE SAFE_HOURLY_LIMIT

_get_hourly_count(log, current_time, read_ok) ==
    IF read_ok
    THEN get_api_request_count(log, hour_start(current_time), current_time)
    ELSE 0

_get_daily_count(log, current_time, read_ok) ==
    IF read_ok
    THEN get_api_request_count(log, day_start(current_time), current_time)
    ELSE 0

can_make_request_hard_limits(log, now, hourly_ok, daily_ok) ==
    LET hourly_count == _get_hourly_count(log, now, hourly_ok)
        daily_count == _get_daily_count(log, now, daily_ok)
    IN  IF hourly_count >= HOURLY_LIMIT
        THEN [allowed |-> FALSE, reason |-> "hourly"]
        ELSE IF daily_count >= DAILY_LIMIT
        THEN [allowed |-> FALSE, reason |-> "daily"]
        ELSE [allowed |-> TRUE, reason |-> "none"]

can_make_request(log, now, hourly_ok, daily_ok) ==
    LET hourly_count == _get_hourly_count(log, now, hourly_ok)
        daily_count == _get_daily_count(log, now, daily_ok)
    IN  IF hourly_count >= SAFE_HOURLY_LIMIT
        THEN [allowed |-> FALSE, reason |-> "hourly"]
        ELSE IF daily_count >= SAFE_DAILY_LIMIT
        THEN [allowed |-> FALSE, reason |-> "daily"]
        ELSE [allowed |-> TRUE, reason |-> "none"]

Max0(n) == IF n > 0 THEN n ELSE 0

get_usage_stats(log, now, hourly_ok, daily_ok) ==
    LET hourly_count == _get_hourly_count(log, now, hourly_ok)
        daily_count == _get_daily_count(log, now, daily_ok)
    IN  [hourly_used      |-> hourly_count,
         hourly_limit     |-> SAFE_HOURLY_LIMIT,
         hourly_remaining |-> Max0(SAFE_HOURLY_LIMIT - hourly_count),
         daily_used       |-> daily_count,
         daily_limit      |-> SAFE_DAILY_LIMIT,
         daily_remaining  |-> Max0(SAFE_DAILY_LIMIT - daily_count)]

\* INSERT INTO api_requests ... NOW(); a failed insert is logged and dropped.
record_api_request(log, now, write_ok) ==
    IF write_ok THEN [log EXCEPT ![now] = @ + 1] ELSE log

\* Tables gated callers can have filled by 22:59: rows of the earlier hours
\* of the day and rows of the running hour.
InitialLogs ==
    { [i \in InstantIds |-> IF i = 1 THEN early ELSE IF i = 2 THEN late ELSE 0] :
        early \in {0, 933}, late \in {0, 46} }

InitLimiter ==
    /\ EngineIdle /\ FetchIdle /\ StoreIdle /\ ServiceIdle
    /\ CalcIdle /\ DispatchIdle /\ JobsIdle /\ CallersIdle
    /\ l_now = 2
    /\ l_log \in InitialLogs
    /\ l_answer = None
    /\ l_usage = None
    /\ l_record = None
    /\ l_left = MaxCalls

\* can_make_request("tiingo"); each of its two reads may fail.
CanMakeRequest ==
    /\ \E hourly_ok \in BOOLEAN, daily_ok \in BOOLEAN :
          l_answer' = [answer    |-> can_make_request(l_log, Instants[l_now], hourly_ok, daily_ok),
                       hourly_ok |-> hourly_ok,
                       daily_ok  |-> daily_ok,
                       now       |-> l_now,
                       log       |-> l_log]
    /\ UNCHANGED <<l_now, l_log, l_usage, l_record, l_left>>
    /\ UNCHANGED <<engine_vars, fetch_vars, store_vars, service_vars, calc_vars, dispatch_vars, jobs_vars, callers_vars>>

\* record_request("tiingo") by a caller that was just allowed to proceed
\* (wait_if_needed returned True); the insert may fail.
RecordRequest ==
    /\ l_left > 0
    /\ l_answer # None
    /\ l_answer.answer.allowed
    /\ l_answer.now = l_now
    /\ l_answer.log = l_log
    /\ \E write_ok \in BOOLEAN :
          /\ l_log' = record_api_request(l_log, l_now, write_ok)
          /\ l_record' = [raised |-> FALSE, written |-> write_ok, before |-> l_log]
    /\ l_left' = l_left - 1
    /\ UNCHANGED <<l_now, l_answer, l_usage>>
    /\ UNCHANGED <<engine_vars, fetch_vars, store_vars, service_vars, calc_vars, dispatch_vars, jobs_vars, callers_vars>>

\* get_usage_stats("tiingo").
GetUsageStats ==
    /\ \E hourly_ok \in BOOLEAN, daily_ok \in BOOLEAN :
          l_usage' = [stats     |-> get_usage_stats(l_log, Instants[l_now], hourly_ok, daily_ok),
                      hourly_ok |-> hourly_ok,
                      daily_ok  |-> daily_ok,
                      now       |-> l_now,
                      log       |-> l_log]
    /\ UNCHANGED <<l_now, l_log, l_answer, l_record, l_left>>
    /\ UNCHANGED <<engine_vars, fetch_vars, store_vars, service_vars, calc_vars, dispatch_vars, jobs_vars, callers_vars>>

\* The clock reaches the next instant.
LimiterTick ==
    /\ l_now < Len(Instants)
    /\ l_now' = l_now + 1
    /\ UNCHANGED <<l_log, l_answer, l_usage, l_record, l_left>>
    /\ UNCHANGED <<engine_vars, fetch_vars, store_vars, service_vars, calc_vars, dispatch_vars, jobs_vars, callers_vars>>

NextLimiter == CanMakeRequest \/ RecordRequest \/ GetUsageStats \/ LimiterTick

SpecLimiter == InitLimiter /\ [][NextLimiter]_vars

(***************************************************************************)
(* The stock_cache table behind StockRepository, written by the batch job  *)
(* and by interactive workers.  Each upsert is one INSERT ... ON CONFLICT  *)
(* DO UPDATE statement in its own transaction.                             *)
(***************************************************************************)
\* Symbols as callers spell them.
Texts == {"aapl", "AAPL", "msft", "MSFT"}

\* str.upper()
upper(symbol) ==
    CASE symbol = "aapl" -> "AAPL"
      [] symbol = "msft" -> "MSFT"
      [] OTHER -> symbol

Workers == 1..MaxWorkers

\* The arguments worker w passes to update_stock_cache.
PriceOf(w) == 100 + w

Ma200Of(w) == (100 - w) * WINDOW

DataJsonOf(w) == [price |-> 100 + w, ma_200 |-> (100 - w) * WINDOW]

Ready == [state |-> "ready"]

InitStore ==
    /\ EngineIdle /\ FetchIdle /\ LimiterIdle /\ ServiceIdle
    /\ CalcIdle /\ DispatchIdle /\ JobsIdle /\ CallersIdle
    /\ c_table = [k \in Texts |-> NoRow]
    /\ c_now = 0
    /\ c_read = None
    /\ c_calls = [w \in Workers |-> Ready]

\* Worker w calls update_stock_cache(symbol, ...): the statement runs and
\* commits.
StoreUpsert(w) ==
    /\ c_calls[w] = Ready
    /\ \E symbol \in Texts :
          /\ c_table' = update_stock_cache(c_table, upper(symbol),
                                           PriceOf(w), Ma200Of(w), DataJsonOf(w))
          /\ c_calls' = [c_calls EXCEPT ![w] =
                            [state  |-> "committed",
                             symbol |-> symbol,
                             at     |-> c_now,
                             seq    |-> Cardinality({v \in Workers : c_calls[v] # Ready}) + 1]]
    /\ UNCHANGED <<c_now, c_read>>
    /\ UNCHANGED <<engine_vars, fetch_vars, limiter_vars, service_vars, calc_vars, dispatch_vars, jobs_vars, callers_vars>>

\* get_fresh_cache(symbol, max_age_hours): a SELECT, nothing is written.
StoreGetFresh ==
    /\ \E symbol \in Texts, max_age_hours \in {CACHE_HOURS, CACHE_HOURS + 1} :
          c_read' = [symbol        |-> symbol,
                     max_age_hours |-> max_age_hours,
                     answer        |-> get_fresh_cache(c_table, upper(symbol), max_age_hours),
                     table         |-> c_table]
    /\ UNCHANGED <<c_table, c_now, c_calls>>
    /\ UNCHANGED <<engine_vars, fetch_vars, limiter_vars, service_vars, calc_vars, dispatch_vars, jobs_vars, callers_vars>>

\* An hour passes.
StoreTick ==
    /\ c_now < MaxHours
    /\ c_now' = c_now + 1
    /\ c_table' = [k \in Texts |->
                      IF c_table[k] = NoRow THEN NoRow
                      ELSE [c_table[k] EXCEPT !.age = @ + 1]]
    /\ UNCHANGED <<c_read, c_calls>>
    /\ UNCHANGED <<engine_vars, fetch_vars, limiter_vars, service_vars, calc_vars, dispatch_vars, jobs_vars, callers_vars>>

NextStore ==
    \/ \E w \in Workers : StoreUpsert(w)
    \/ StoreGetFresh
    \/ StoreTick

SpecStore == InitStore /\ [][NextStore]_vars

(***************************************************************************)
(* StockService (src/services/stock_service.py): calculate_metrics,        *)
(* get_stock_data and calculate_trading_stats over the stock_cache and the *)
(* trading_stats_cache tables, next to the engine's _process_symbol, which *)
(* reads and writes the same stock_cache table.                            *)
(***************************************************************************)
valid_periods == {"1y", "3y", "5y", "max"}

\* The periods a caller asks for: the valid ones and one that is not.
RequestedPeriods == valid_periods \cup {"2y"}

\* int(period[:-1])
YearsOf(period) ==
    CASE period = "1y" -> 1
      [] period = "2y" -> 2
      [] period = "3y" -> 3
      [] OTHER         -> 5

\* The first of m daily entries that passes the period filter
\* date >= now - timedelta(days=years * 365), now being later than midnight.
PeriodStart(m, period) ==
    IF period = "max" THEN 1
    ELSE LET first == m - 365 * YearsOf(period) + 1
         IN  IF first < 1 THEN 1 ELSE first

\* The entries of the requested period.
FilterByPeriod(entries, period) ==
    SubSeq(entries, PeriodStart(Len(entries), period), Len(entries))

\* Series.dropna() on the pct_diff column.
DropNa(entries) ==
    LET Defined(e) == e.pct_diff # None
        kept == SelectSeq(entries, Defined)
    IN  [k \in 1..Len(kept) |-> kept[k].pct_diff.value]

\* The entries of the time_series map of a stored payload, and the frame of
\* a fetched history with its indicator columns.
TimeSeriesOf ==
    [f \in ServiceHistories \cup CachedSeries |-> TimeSeriesData(Closes(f))]

\* Mutant: the percentiles taken over the entries of the requested period.
AnalysisRowsOfPeriod(complete_data, period) == FilterByPeriod(complete_data, period)

\* The rows whose deviations enter np.percentile: calculate_metrics takes
\* the percentiles before it filters by period.
AnalysisRows(complete_data, period) == complete_data

\* What the fresh path of calculate_metrics derives from a fetched history.
FreshMetrics(f, period) ==
    LET s == Closes(f)
        complete_data == TimeSeriesOf[f]
        valid_pct_diff == DropNa(AnalysisRows(complete_data, period))
    IN  IF Len(valid_pct_diff) < 20
        THEN [enough |-> FALSE]
        ELSE [enough         |-> TRUE,
              percentiles    |-> [p16 |-> Quantile(valid_pct_diff, 16),
                                  p84 |-> Quantile(valid_pct_diff, 84)],
              previous_close |-> IF Len(s) >= 2 THEN s[Len(s) - 1] ELSE None,
              current_price  |-> s[Len(s)],
              current_ma_200 |-> RollingSum(s, Len(s)),
              complete_data  |-> complete_data,
              time_series    |-> f]

FreshMetricsOf ==
    [f \in ServiceHistories |-> [period \in valid_periods |-> FreshMetrics(f, period)]]

\* The entries of each period of a series.
EntriesOf ==
    [f \in ServiceHistories \cup CachedSeries |->
        [period \in valid_periods |-> FilterByPeriod(TimeSeriesOf[f], period)]]

\* The result dictionary of calculate_metrics: percentiles, previous_close,
\* and dates, prices, ma_200 and pct_diff, which are the entries of the
\* period of the series, EntriesOf[time_series][period].
MetricsResult(time_series, period, percentiles, previous_close) ==
    [time_series    |-> time_series,
     period         |-> period,
     percentiles    |-> percentiles,
     previous_close |-> previous_close]

\* The cache branch of calculate_metrics.
\*   "returned": the cached series is served
\*   "miss":     control goes on to the fetch
\*   "raised":   an exception other than JSONDecodeError and KeyError left
\*               the branch for the outer except clause
MetricsCacheBranch(cached_data, period) ==
    IF cached_data = None
    THEN [outcome |-> "miss"]
    ELSE LET decoded == json_loads(cached_data.data_json)
         IN  IF decoded.raised
             THEN [outcome |-> "miss"]
             ELSE IF decoded.value = None
             THEN [outcome |-> "raised"]
             ELSE LET cache_data == decoded.value
                  IN  IF "time_series" \in DOMAIN cache_data /\ cache_data.time_series.n > 0
                      THEN IF "percentiles" \in DOMAIN cache_data
                           THEN [outcome |-> "returned",
                                 result |->
                                    MetricsResult(
                                        cache_data.time_series, period,
                                        cache_data.percentiles,
                                        IF "previous_close" \in DOMAIN cache_data
                                        THEN cache_data.previous_close ELSE None)]
                           ELSE [outcome |-> "miss"]
                      ELSE [outcome |-> "miss"]

\* The fresh path of calculate_metrics once the indicators m are derived.
FreshResult(cache, ticker_symbol, period, m) ==
    IF ~m.enough
    THEN [status |-> 400, result |-> None, cache |-> cache]
    ELSE [status |-> 200,
          result |-> MetricsResult(m.time_series, period, m.percentiles,
                                   m.previous_close),
          cache  |->
             update_stock_cache(cache, ticker_symbol, m.current_price,
                 m.current_ma_200,
                 CacheData(m.current_price, m.current_ma_200, m.percentiles,
                           m.previous_close, m.time_series))]

\* The fresh path of calculate_metrics, from the fetch on.
MetricsFreshBranch(cache, upstream, ticker_symbol, period) ==
    IF upstream = None
    THEN [status |-> 500, result |-> None, cache |-> cache]
    ELSE FreshResult(cache, ticker_symbol, period, FreshMetricsOf[upstream][period])

\* StockService.calculate_metrics.  fetched counts the upstream calls.
calculate_metrics(cache, upstream, ticker_symbol, period) ==
    IF period \notin valid_periods
    THEN [status |-> 400, result |-> None, fetched |-> 0, cache |-> cache]
    ELSE LET hit == MetricsCacheBranch(
                        get_fresh_cache(cache, ticker_symbol, CACHE_HOURS), period)
         IN  IF hit.outcome = "returned"
             THEN [status |-> 200, result |-> hit.result, fetched |-> 0, cache |-> cache]
             ELSE IF hit.outcome = "raised"
             THEN [status |-> 500, result |-> None, fetched |-> 0, cache |-> cache]
             ELSE LET r == MetricsFreshBranch(cache, upstream, ticker_symbol, period)
                  IN  [status |-> r.status, result |-> r.result, fetched |-> 1,
                       cache |-> r.cache]

\* StockService.get_stock_data with _filter_data_by_period: an exception is
\* logged and raised again.
get_stock_data(cache, upstream, symbol, period) ==
    LET cached_data == get_fresh_cache(cache, symbol, CACHE_HOURS)
    IN  IF cached_data # None
        THEN LET decoded == json_loads(cached_data.data_json)
             IN  IF decoded.raised
                 THEN [outcome |-> "raised", fetched |-> 0]
                 ELSE IF decoded.value = None
                 THEN [outcome |-> IF period = "max" THEN "returned" ELSE "raised",
                       fetched |-> 0]
                 ELSE IF period = "max" \/ "time_series" \notin DOMAIN decoded.value
                 THEN [outcome |-> "returned", fetched |-> 0]
                 ELSE IF "percentiles" \in DOMAIN decoded.value
                 THEN [outcome |-> "returned", fetched |-> 0]
                 ELSE [outcome |-> "raised", fetched |-> 0]
        ELSE IF upstream = None
             THEN [outcome |-> "raised", fetched |-> 1]
             ELSE [outcome |-> "returned", fetched |-> 1]

\* A condition_func of calculate_trading_stats: lambda x: x <= p16 or
\* lambda x: x >= p84.
AtMost(p) == [cmp |-> "<=", than |-> p]

AtLeast(p) == [cmp |-> ">=", than |-> p]

Holds(condition_func, value) ==
    IF condition_func.cmp = "<=" THEN value <= condition_func.than
    ELSE value >= condition_func.than

\* One pass of the loop body of _calculate_streaks.
StreakStep(st, value, condition_func) ==
    IF Holds(condition_func, value)
    THEN [st EXCEPT !.current_streak = @ + 1]
    ELSE IF st.current_streak > 0
         THEN [streaks |-> Append(st.streaks, st.current_streak), current_streak |-> 0]
         ELSE st

\* The loop over data[lo..hi], in order, from the loop state st: the
\* passes over data[lo..mid], then those over data[mid+1..hi].
RECURSIVE StreakLoop(_, _, _, _, _)
StreakLoop(data, condition_func, lo, hi, st) ==
    IF lo > hi THEN st
    ELSE IF lo = hi THEN StreakStep(st, data[lo], condition_func)
    ELSE LET mid == (lo + hi) \div 2
             half == StreakLoop(data, condition_func, lo, mid, st)
         IN  IF half.current_streak >= 0
             THEN StreakLoop(data, condition_func, mid + 1, hi, half)
             ELSE half

\* Mutant: the streak that reaches the end of the data is not appended.
_calculate_streaks_drops_last(data, condition_func) ==
    StreakLoop(data, condition_func, 1, Len(data),
               [streaks |-> <<>>, current_streak |-> 0]).streaks

\* StockService._calculate_streaks
_calculate_streaks(data, condition_func) ==
    LET st == StreakLoop(data, condition_func, 1, Len(data),
                         [streaks |-> <<>>, current_streak |-> 0])
    IN  IF st.current_streak > 0
        THEN Append(st.streaks, st.current_streak)
        ELSE st.streaks

\* max(streaks) if streaks else 0
MaxOf(streaks) ==
    IF streaks = <<>> THEN 0
    ELSE CHOOSE x \in {streaks[i] : i \in 1..Len(streaks)} :
             \A i \in 1..Len(streaks) : streaks[i] <= x

\* [p for p in stock_data["prices"] if p is not None]
PricesOf(entries) ==
    LET Defined(e) == e.price # None
        kept == SelectSeq(entries, Defined)
    IN  [k \in 1..Len(kept) |-> kept[k].price.value]

\* The branch of the if/elif/else of the price loop a deviation takes.
ZoneOfLoop(p, p16, p84) ==
    IF p <= p16 THEN "fear" ELSE IF p >= p84 THEN "greed" ELSE "neutral"

\* The prices of the days whose own deviation lies in the zone: each
\* deviation with the close of its date.
ZonePricesByDate(entries, prices, pct_diff, p16, p84, zone) ==
    LET own == [k \in 1..Len(entries) |->
                   IF entries[k].pct_diff # None
                      /\ ZoneOfLoop(entries[k].pct_diff.value, p16, p84) = zone
                   THEN entries[k].price.value ELSE 0]
        n == Cardinality({k \in 1..Len(entries) :
                             /\ entries[k].pct_diff # None
                             /\ ZoneOfLoop(entries[k].pct_diff.value, p16, p84) = zone})
    IN  [sum |-> SumRange(own, 1, Len(own)), n |-> n]

\* The list fear_prices, greed_prices or neutral_prices the loop
\* `for i, p in enumerate(pct_diff)` fills with prices[i], as the pair np.mean
\* divides: the sum and the length.
ZonePrices(entries, prices, pct_diff, p16, p84, zone) ==
    LET taken == [i \in 1..Len(pct_diff) |->
                     IF i <= Len(prices) /\ ZoneOfLoop(pct_diff[i], p16, p84) = zone
                     THEN prices[i] ELSE 0]
        n == Cardinality({i \in 1..Len(pct_diff) :
                             /\ i <= Len(prices)
                             /\ ZoneOfLoop(pct_diff[i], p16, p84) = zone})
    IN  [sum |-> SumRange(taken, 1, Len(taken)), n |-> n]

\* The statistics calculate_trading_stats derives from the entries and the
\* percentiles of a result of calculate_metrics (the percentages, the mean
\* durations and the opportunity score are left out), or None when it
\* answers 400 for want of data.
ZoneStats(entries, p16, p84) ==
    LET pct_diff == DropNa(entries)
        total_days == Len(pct_diff)
        extreme_fear_count == Cardinality({i \in 1..total_days : pct_diff[i] <= p16})
        extreme_greed_count == Cardinality({i \in 1..total_days : pct_diff[i] >= p84})
        current_pct_diff == pct_diff[total_days]
    IN  IF entries = <<>> \/ pct_diff = <<>>
        THEN None
        ELSE [total_days           |-> total_days,
              extreme_fear_alerts  |-> extreme_fear_count,
              extreme_greed_alerts |-> extreme_greed_count,
              fear_days            |-> extreme_fear_count,
              greed_days           |-> extreme_greed_count,
              neutral_days         |-> total_days - extreme_fear_count - extreme_greed_count,
              fear_prices          |->
                  ZonePrices(entries, PricesOf(entries), pct_diff, p16, p84, "fear"),
              greed_prices         |->
                  ZonePrices(entries, PricesOf(entries), pct_diff, p16, p84, "greed"),
              neutral_prices       |->
                  ZonePrices(entries, PricesOf(entries), pct_diff, p16, p84, "neutral"),
              max_fear_duration    |-> MaxOf(_calculate_streaks(pct_diff, AtMost(p16))),
              max_greed_duration   |-> MaxOf(_calculate_streaks(pct_diff, AtLeast(p84))),
              zone                 |-> IF current_pct_diff <= p16 THEN "fear"
                                       ELSE IF current_pct_diff >= p84 THEN "greed"
                                       ELSE "neutral"]

\* The percentiles a result about a series can carry.
PercentilesOf(f) ==
    { FreshMetricsOf[f][q].percentiles :
        q \in {q \in valid_periods : FreshMetricsOf[f][q].enough} }

\* ZoneStats of every result a history can lead to.
ZoneStatsOf ==
    [f \in ServiceHistories |->
        [period \in valid_periods |->
            [percentiles \in PercentilesOf(f) |->
                ZoneStats(EntriesOf[f][period], percentiles.p16, percentiles.p84)]]]

\* The result dictionary of calculate_trading_stats for the statistics
\* zones, or None.
StatsResult(ticker_symbol, period, zones) ==
    IF zones = None
    THEN None
    ELSE [symbol               |-> ticker_symbol,
          period               |-> period,
          total_days           |-> zones.total_days,
          extreme_fear_alerts  |-> zones.extreme_fear_alerts,
          extreme_greed_alerts |-> zones.extreme_greed_alerts,
          fear_days            |-> zones.fear_days,
          greed_days           |-> zones.greed_days,
          neutral_days         |-> zones.neutral_days,
          avg_fear_price       |-> zones.fear_prices,
          avg_greed_price      |-> zones.greed_prices,
          avg_neutral_price    |-> zones.neutral_prices,
          max_fear_duration    |-> zones.max_fear_duration,
          max_greed_duration   |-> zones.max_greed_duration,
          zone                 |-> zones.zone]

\* The result dictionary of calculate_trading_stats, or None.
TradingStats(ticker_symbol, period, stock_data) ==
    StatsResult(ticker_symbol, period,
        ZoneStatsOf[stock_data.time_series][stock_data.period][stock_data.percentiles])

\* StockRepository.get_fresh_trading_stats_cache:
\* last_updated > NOW() - max_age_hours.
get_fresh_trading_stats_cache(stats, symbol, period, max_age_hours) ==
    IF <<symbol, period>> \in DOMAIN stats
       /\ stats[<<symbol, period>>] # NoRow
       /\ stats[<<symbol, period>>].age < max_age_hours
    THEN stats[<<symbol, period>>]
    ELSE None

\* Mutant: the upsert stamps every record of the symbol.
update_trading_stats_cache_all_periods(stats, symbol, period, stats_json) ==
    [k \in DOMAIN stats |->
        IF k = <<symbol, period>> THEN [stats_json |-> stats_json, age |-> 0]
        ELSE IF k[1] = symbol /\ stats[k] # NoRow THEN [stats[k] EXCEPT !.age = 0]
        ELSE stats[k]]

\* StockRepository.update_trading_stats_cache: insert or replace the record
\* of (symbol, period), last_updated = NOW().
update_trading_stats_cache(stats, symbol, period, stats_json) ==
    [stats EXCEPT ![<<symbol, period>>] = [stats_json |-> stats_json, age |-> 0]]

\* calculate_trading_stats once the statistics are derived: None answers
\* 400, anything else is stored and returned.  m is what calculate_metrics
\* answered.
StoreAndReturnStats(stats, ticker_symbol, period, m, result) ==
    IF result = None
    THEN [status |-> 400, body |-> None, fetched |-> m.fetched,
          computed |-> FALSE, cache |-> m.cache, stats |-> stats, metrics |-> None]
    ELSE [status |-> 200, body |-> result, fetched |-> m.fetched,
          computed |-> TRUE, cache |-> m.cache,
          stats |-> update_trading_stats_cache(stats, ticker_symbol, period, result),
          metrics |-> m.result]

\* calculate_trading_stats from the answer m of calculate_metrics on: an
\* error status is passed on.
StatsFromMetrics(stats, ticker_symbol, period, m) ==
    IF m.status # 200
    THEN [status |-> m.status, body |-> None, fetched |-> m.fetched,
          computed |-> FALSE, cache |-> m.cache, stats |-> stats, metrics |-> None]
    ELSE StoreAndReturnStats(stats, ticker_symbol, period, m,
                             TradingStats(ticker_symbol, period, m.result))

\* StockService.calculate_trading_stats.
\*   computed: the statistics were derived in this call
calculate_trading_stats(cache, stats, upstream, ticker_symbol, period) ==
    LET cached_stats ==
            get_fresh_trading_stats_cache(stats, ticker_symbol, period, CACHE_HOURS)
    IN  IF cached_stats # None
        THEN [status |-> 200, body |-> cached_stats.stats_json, fetched |-> 0,
              computed |-> FALSE, cache |-> cache, stats |-> stats, metrics |-> None]
        ELSE StatsFromMetrics(stats, ticker_symbol, period,
                 calculate_metrics(cache, upstream, ticker_symbol, period))

\* A payload of an earlier shape: the percentiles are missing.
PartialCacheData(f) ==
    LET s == Closes(f)
    IN  [price          |-> s[Len(s)],
         ma_200         |-> RollingSum(s, Len(s)),
         previous_close |-> s[Len(s) - 1],
         time_series    |-> f,
         last_updated   |-> "isoformat"]

\* Fresh rows another writer or an earlier version left in stock_cache:
\* a text that is no JSON document, the text "null", a partial payload.
LeftOverRows ==
    { [last_price |-> 150, ma_200 |-> 150 * WINDOW, data_json |-> d, age |-> 0] :
        d \in {Undecodable, None, PartialCacheData([kind |-> "step", n |-> 3 * WINDOW])} }

\* What a reader finds when it asks get_fresh_cache for the symbol.
ShapeOf(cached_data) ==
    IF cached_data = None
    THEN [row |-> FALSE, decodable |-> FALSE, keys |-> {}]
    ELSE LET decoded == json_loads(cached_data.data_json)
         IN  [row       |-> TRUE,
              decodable |-> ~decoded.raised,
              keys      |-> IF decoded.raised THEN {}
                            ELSE IF decoded.value = None THEN {}
                            ELSE DOMAIN decoded.value]

\* What the upstream does to the request of TiingoClient: it answers with
\* bars, it answers 404, or every attempt fails until the retries are used up.
UpstreamCauses == {"data", "not_found", "retries_exhausted"}

\* What TiingoClient.fetch_historical_data returns in each case: the 404
\* branch and the end of the retry loop both return None.
ClientReturns(cause) ==
    IF cause = "data" THEN ServiceHistories ELSE {None}

InitService ==
    /\ s_cache \in { [s \in Symbols |-> IF s = 1 THEN r ELSE NoRow] :
                        r \in {NoRow} \cup LeftOverRows }
    /\ s_stats = [k \in Symbols \X valid_periods |-> NoRow]
    /\ s_cause \in UpstreamCauses
    /\ s_upstream \in ClientReturns(s_cause)
    /\ s_last = None
    /\ s_calls = 0
    /\ EngineIdle /\ FetchIdle /\ LimiterIdle /\ StoreIdle
    /\ CalcIdle /\ DispatchIdle /\ JobsIdle /\ CallersIdle

\* A request for the metrics of a symbol.
ServiceCalculateMetrics ==
    /\ s_calls < MaxServiceCalls
    /\ \E symbol \in Symbols, period \in RequestedPeriods :
       \E r \in {calculate_metrics(s_cache, s_upstream, symbol, period)} :
          LET cached_data == get_fresh_cache(s_cache, symbol, CACHE_HOURS)
          IN  /\ s_cache' = r.cache
              /\ s_last' =
                    [op          |-> "calculate_metrics",
                     symbol      |-> symbol,
                     period      |-> period,
                     seen        |-> ShapeOf(cached_data),
                     stats_seen  |-> None,
                     status      |-> r.status,
                     raised      |-> r.status = 500 /\ r.fetched = 0,
                     fetched     |-> r.fetched,
                     computed    |-> FALSE,
                     percentiles |-> IF r.status = 200 THEN r.result.percentiles ELSE None,
                     body        |-> IF r.status = 200
                                     THEN Len(EntriesOf[r.result.time_series][period])
                                     ELSE 0]
    /\ s_calls' = s_calls + 1
    /\ UNCHANGED <<s_stats, s_upstream, s_cause>>
    /\ UNCHANGED <<engine_vars, fetch_vars, limiter_vars, store_vars, calc_vars,
                   dispatch_vars, jobs_vars, callers_vars>>

\* A call of get_stock_data.
ServiceGetStockData ==
    /\ s_calls < MaxServiceCalls
    /\ \E symbol \in Symbols, period \in RequestedPeriods :
          LET cached_data == get_fresh_cache(s_cache, symbol, CACHE_HOURS)
              r == get_stock_data(s_cache, s_upstream, symbol, period)
          IN  s_last' =
                 [op          |-> "get_stock_data",
                  symbol      |-> symbol,
                  period      |-> period,
                  seen        |-> ShapeOf(cached_data),
                  stats_seen  |-> None,
                  status      |-> 0,
                  raised      |-> r.outcome = "raised",
                  fetched     |-> r.fetched,
                  computed    |-> FALSE,
                  percentiles |-> None,
                  body        |-> 0]
    /\ s_calls' = s_calls + 1
    /\ UNCHANGED <<s_cache, s_stats, s_upstream, s_cause>>
    /\ UNCHANGED <<engine_vars, fetch_vars, limiter_vars, store_vars, calc_vars,
                   dispatch_vars, jobs_vars, callers_vars>>

\* A request for the trading statistics of a symbol and period.
ServiceCalculateTradingStats ==
    /\ s_calls < MaxServiceCalls
    /\ \E symbol \in Symbols, period \in RequestedPeriods :
       \E r \in {calculate_trading_stats(s_cache, s_stats, s_upstream, symbol, period)} :
          LET cached_data == get_fresh_cache(s_cache, symbol, CACHE_HOURS)
              cached_stats ==
                  get_fresh_trading_stats_cache(s_stats, symbol, period, CACHE_HOURS)
          IN  /\ s_cache' = r.cache
              /\ s_stats' = r.stats
              /\ s_last' =
                    [op          |-> "calculate_trading_stats",
                     symbol      |-> symbol,
                     period      |-> period,
                     seen        |-> ShapeOf(cached_data),
                     stats_seen  |-> cached_stats,
                     status      |-> r.status,
                     raised      |-> r.status = 500 /\ r.fetched = 0,
                     fetched     |-> r.fetched,
                     computed    |-> r.computed,
                     percentiles |-> None,
                     metrics     |-> r.metrics,
                     body        |-> r.body]
    /\ s_calls' = s_calls + 1
    /\ UNCHANGED <<s_upstream, s_cause>>
    /\ UNCHANGED <<engine_vars, fetch_vars, limiter_vars, store_vars, calc_vars,
                   dispatch_vars, jobs_vars, callers_vars>>

\* The engine's _process_symbol on the same table.
ServiceEngineProcess ==
    /\ s_calls < MaxServiceCalls
    /\ \E symbol \in Symbols :
          LET cached_data == get_fresh_cache(s_cache, symbol, CACHE_HOURS)
              hit == CacheBranch(symbol, cached_data)
              r == FreshBranch(symbol, s_upstream)
          IN  /\ s_cache' =
                    IF ~hit.returned /\ r.write # None
                    THEN update_stock_cache(s_cache, symbol, r.write.price,
                                            r.write.ma_200, r.write.data_json)
                    ELSE s_cache
              /\ s_last' =
                    [op          |-> "_process_symbol",
                     symbol      |-> symbol,
                     period      |-> "2y",
                     seen        |-> ShapeOf(cached_data),
                     stats_seen  |-> None,
                     status      |-> 0,
                     raised      |-> IF hit.returned THEN hit.raised ELSE r.raised,
                     fetched     |-> IF hit.returned THEN 0 ELSE 1,
                     computed    |-> FALSE,
                     percentiles |-> None,
                     body        |-> 0]
    /\ s_calls' = s_calls + 1
    /\ UNCHANGED <<s_stats, s_upstream, s_cause>>
    /\ UNCHANGED <<engine_vars, fetch_vars, limiter_vars, store_vars, calc_vars,
                   dispatch_vars, jobs_vars, callers_vars>>

\* An hour passes: every row of both tables is an hour older.
ServiceTick ==
    /\ \/ \E s \in Symbols : s_cache[s] # NoRow /\ s_cache[s].age < MaxAge
       \/ \E k \in DOMAIN s_stats : s_stats[k] # NoRow /\ s_stats[k].age < MaxAge
    /\ s_cache' =
          [s \in Symbols |->
              IF s_cache[s] # NoRow /\ s_cache[s].age < MaxAge
              THEN [s_cache[s] EXCEPT !.age = @ + 1]
              ELSE s_cache[s]]
    /\ s_stats' =
          [k \in DOMAIN s_stats |->
              IF s_stats[k] # NoRow /\ s_stats[k].age < MaxAge
              THEN [s_stats[k] EXCEPT !.age = @ + 1]
              ELSE s_stats[k]]
    /\ UNCHANGED <<s_upstream, s_cause, s_last, s_calls>>
    /\ UNCHANGED <<engine_vars, fetch_vars, limiter_vars, store_vars, calc_vars,
                   dispatch_vars, jobs_vars, callers_vars>>

NextService ==
    \/ ServiceCalculateMetrics
    \/ ServiceGetStockData
    \/ ServiceCalculateTradingStats
    \/ ServiceEngineProcess
    \/ ServiceTick

SpecService == InitService /\ [][NextService]_vars

(***************************************************************************)
(* The pure functions of the analysis, each applied to one input: the      *)
(* percentiles of a deviation column, the indicator columns of a series    *)
(* of closes, and the streaks of a list of deviations.                     *)
(***************************************************************************)

\* A deviation column: lead undefined rows, then n deviations in 1/SCALE
\* percent.
DeviationColumn(a, b, lead, n) ==
    [i \in 1..(lead + n) |->
        [pct_diff |-> IF i <= lead THEN None
                      ELSE Num((((a * i * i + b * i) % 17) - 8) * 37)]]

DeviationColumns ==
    { DeviationColumn(a, b, lead, n) :
        a \in 0..MaxCoef, b \in 0..MaxCoef, lead \in 0..1, n \in 18..MaxPoints }

\* A series of closes of n days.
CloseSeries(a, b, n) == [i \in 1..n |-> 50 + ((a * i * i + b * i) % 23)]

CloseSeriesSet ==
    { CloseSeries(a, b, n) :
        a \in 0..MaxCoef, b \in 0..MaxCoef, n \in (WINDOW - 1)..(WINDOW + MaxExtra) }

\* The arguments of _calculate_streaks: deviations, and one of the two
\* conditions calculate_trading_stats passes.
StreakArguments ==
    [data : SeqsUpTo(0..2, MaxData), condition_func : {AtMost(0), AtLeast(2)}]

\* calculate_metrics, from the dropna() to the percentiles.
ServicePercentiles(column) ==
    LET valid_pct_diff == DropNa(column)
    IN  IF Len(valid_pct_diff) < 20
        THEN [enough |-> FALSE]
        ELSE [enough |-> TRUE,
              p16    |-> Quantile(valid_pct_diff, 16),
              p84    |-> Quantile(valid_pct_diff, 84)]

\* _process_symbol, from the dropna() to the percentiles.
EnginePercentiles(column) ==
    LET valid_diffs == DropNa(column)
    IN  IF Len(valid_diffs) = 0
        THEN [enough |-> FALSE]
        ELSE [enough |-> TRUE,
              p16    |-> Quantile(valid_diffs, 16),
              p84    |-> Quantile(valid_diffs, 84)]

\* The daily bars of an upstream answer: dates are day numbers; the answer
\* may be unsorted and may repeat a date.
MaxBars == 3
MaxDate == 3
TiingoBar == [date : 1..MaxDate, adjClose : {10, 20}]
TiingoAnswers == UNION { [1..n -> TiingoBar] : n \in 0..MaxBars }

\* TiingoClient._process_tiingo_data: the columns are renamed and the frame
\* is sorted by its date index; no row is dropped.  sort_index does not fix
\* the order of rows of equal date, so every sorted arrangement of the rows
\* is a possible frame.  An empty answer raises ValueError.
_process_tiingo_data(tiingo_data) ==
    IF tiingo_data = <<>>
    THEN {[raised |-> TRUE, rows |-> <<>>]}
    ELSE LET n == Len(tiingo_data)
             df_processed(p) ==
                 [i \in 1..n |-> [Date  |-> tiingo_data[p[i]].date,
                                  Close |-> tiingo_data[p[i]].adjClose]]
         IN  { [raised |-> FALSE, rows |-> df_processed(p)] :
                 p \in { q \in [1..n -> 1..n] :
                           /\ \A i, j \in 1..n : i # j => q[i] # q[j]
                           /\ \A i \in 1..(n - 1) :
                                 tiingo_data[q[i]].date <= tiingo_data[q[i + 1]].date } }

InitCalc ==
    /\ \/ k_op \in {"calculate_metrics", "_process_symbol"} /\ k_in \in DeviationColumns
       \/ k_op = "indicators" /\ k_in \in CloseSeriesSet
       \/ k_op = "_calculate_streaks" /\ k_in \in StreakArguments
       \/ k_op = "_process_tiingo_data" /\ k_in \in TiingoAnswers
    /\ k_out = None
    /\ EngineIdle /\ FetchIdle /\ LimiterIdle /\ StoreIdle /\ ServiceIdle
    /\ DispatchIdle /\ JobsIdle /\ CallersIdle

CalcServicePercentiles ==
    /\ k_op = "calculate_metrics"
    /\ k_out = None
    /\ k_out' = ServicePercentiles(k_in)
    /\ UNCHANGED <<k_op, k_in>>
    /\ UNCHANGED <<engine_vars, fetch_vars, limiter_vars, store_vars, service_vars,
                   dispatch_vars, jobs_vars, callers_vars>>

CalcEnginePercentiles ==
    /\ k_op = "_process_symbol"
    /\ k_out = None
    /\ k_out' = EnginePercentiles(k_in)
    /\ UNCHANGED <<k_op, k_in>>
    /\ UNCHANGED <<engine_vars, fetch_vars, limiter_vars, store_vars, service_vars,
                   dispatch_vars, jobs_vars, callers_vars>>

CalcIndicators ==
    /\ k_op = "indicators"
    /\ k_out = None
    /\ k_out' = [columns |-> TimeSeriesData(k_in)]
    /\ UNCHANGED <<k_op, k_in>>
    /\ UNCHANGED <<engine_vars, fetch_vars, limiter_vars, store_vars, service_vars,
                   dispatch_vars, jobs_vars, callers_vars>>

CalcStreaks ==
    /\ k_op = "_calculate_streaks"
    /\ k_out = None
    /\ k_out' = [streaks |-> _calculate_streaks(k_in.data, k_in.condition_func)]
    /\ UNCHANGED <<k_op, k_in>>
    /\ UNCHANGED <<engine_vars, fetch_vars, limiter_vars, store_vars, service_vars,
                   dispatch_vars, jobs_vars, callers_vars>>

CalcProcessTiingoData ==
    /\ k_op = "_process_tiingo_data"
    /\ k_out = None
    /\ k_out' \in _process_tiingo_data(k_in)
    /\ UNCHANGED <<k_op, k_in>>
    /\ UNCHANGED <<engine_vars, fetch_vars, limiter_vars, store_vars, service_vars,
                   dispatch_vars, jobs_vars, callers_vars>>

NextCalc ==
    \/ CalcServicePercentiles
    \/ CalcEnginePercentiles
    \/ CalcIndicators
    \/ CalcStreaks
    \/ CalcProcessTiingoData

SpecCalc == InitCalc /\ [][NextCalc]_vars

(***************************************************************************)
(* Batch dispatch: PeriodicChecker._send_batched_alerts and                *)
(* WebhookHandler.send_batched_alert (src/webhook_handler.py), from the    *)
(* accumulator the symbol loop leaves.  The database accepts every         *)
(* statement.                                                              *)
(***************************************************************************)
\* An accumulated alert: below the band for symbol 1, above it for the
\* other symbols.
DispatchAlert(symbol, is_owned) ==
    [symbol        |-> symbol,
     price         |-> IF symbol = 1 THEN 70 ELSE 130,
     percentile    |-> IF symbol = 1 THEN 0 - 30 * SCALE ELSE 30 * SCALE,
     percentile_16 |-> 0 - 10 * SCALE,
     percentile_84 |-> 10 * SCALE,
     is_owned      |-> is_owned]

\* What the loop can leave for one user: at most one alert per symbol.
Batches ==
    { b \in SeqsUpTo({DispatchAlert(s, o) : s \in Symbols, o \in BOOLEAN}, MaxBatch) :
        \A i, j \in 1..Len(b) : b[i].symbol = b[j].symbol => i = j }

\* The keys of user_alerts in insertion order: the users that hold alerts.
KeyOrders(alerts) ==
    LET keys == {u \in Users : alerts[u] # <<>>}
    IN  { q \in SeqsUpTo(keys, MaxUsers) :
            /\ Len(q) = Cardinality(keys)
            /\ \A i, j \in 1..Len(q) : q[i] = q[j] => i = j }

\* What requests.post and raise_for_status come to in _send_message, or an
\* exception of another kind while the message is composed or sent.
DeliveryOutcomes == {"ok", "request_exception", "error"}

\* _send_message: True when the post succeeds, False on RequestException.
_send_message(delivery) == delivery = "ok"

\* valid_days of send_batched_alert, tested against the local weekday.
handler_valid_days == {0, 1, 2, 3, 6}

\* The add_alert_history calls of one batch, one per alert.
HistoryRows(user_id, alerts, status) ==
    [i \in 1..Len(alerts) |->
        [user_id    |-> user_id,
         symbol     |-> alerts[i].symbol,
         price      |-> alerts[i].price,
         percentile |-> alerts[i].percentile,
         status     |-> status]]

\* A line of the message.
MessageLine(alert) ==
    [symbol |-> alert.symbol,
     status |-> IF alert.percentile <= alert.percentile_16 THEN "Unusually low"
                ELSE IF alert.percentile >= alert.percentile_84 THEN "Unusually high"
                ELSE "Alert"]

\* The message of a batch: the count, the positions, then the watchlist.
BatchedMessage(alerts) ==
    LET Owned(alert) == alert.is_owned
        NotOwned(alert) == ~alert.is_owned
        position_alerts == SelectSeq(alerts, Owned)
        watchlist_alerts == SelectSeq(alerts, NotOwned)
    IN  [total_count |-> Len(alerts),
         positions   |-> [i \in 1..Len(position_alerts) |-> MessageLine(position_alerts[i])],
         watchlist   |-> [i \in 1..Len(watchlist_alerts) |-> MessageLine(watchlist_alerts[i])]]

\* UserRepository.update_user_notification_time
update_user_notification_time(last_notified, user_id, now) ==
    [last_notified EXCEPT ![user_id] = now]

\* Mutant: the timestamp updated whatever the send came to.
NotificationTimeAfterAnySend(last_notified, user_id, success, now) ==
    update_user_notification_time(last_notified, user_id, now)

\* if success: self.db.update_user_notification_time(user_id)
NotificationTimeAfterSend(last_notified, user_id, success, now) ==
    IF success
    THEN update_user_notification_time(last_notified, user_id, now)
    ELSE last_notified

\* WebhookHandler.send_batched_alert: what it returns, the alert_history
\* rows it writes, the message it delivers (None if none), and
\* users.last_notified after it.
send_batched_alert(user_id, alerts, local_today, delivery, now, last_notified) ==
    IF alerts = <<>>
    THEN [returned |-> TRUE, rows |-> <<>>, message |-> None,
          last_notified |-> last_notified]
    ELSE IF local_today \notin handler_valid_days
    THEN [returned |-> FALSE, rows |-> HistoryRows(user_id, alerts, "skipped"),
          message |-> None, last_notified |-> last_notified]
    ELSE IF delivery = "error"
    THEN [returned |-> FALSE, rows |-> HistoryRows(user_id, alerts, "failed"),
          message |-> None, last_notified |-> last_notified]
    ELSE LET success == _send_message(delivery)
         IN  [returned |-> success,
              rows     |-> HistoryRows(user_id, alerts,
                                       IF success THEN "sent" ELSE "failed"),
              message  |-> IF success THEN BatchedMessage(alerts) ELSE None,
              last_notified |->
                  NotificationTimeAfterSend(last_notified, user_id, success, now)]

InitDispatch ==
    /\ d_user_alerts \in [Users -> Batches]
    /\ d_queue \in KeyOrders(d_user_alerts)
    /\ d_last_notified = [u \in Users |-> 0]
    /\ d_history = <<>>
    /\ d_messages = <<>>
    /\ d_now = 1
    /\ d_results = <<>>
    /\ d_today \in valid_days
    /\ EngineIdle /\ FetchIdle /\ LimiterIdle /\ StoreIdle /\ ServiceIdle
    /\ CalcIdle /\ JobsIdle /\ CallersIdle

\* One pass of the loop of _send_batched_alerts: the next user of
\* user_alerts, through NotificationService.send_batched_alerts.
DispatchUser ==
    /\ d_queue # <<>>
    /\ LET user_id == Head(d_queue)
           alerts == d_user_alerts[user_id]
       IN  \E local_today \in LocalDays(d_today), delivery \in DeliveryOutcomes :
              LET r == send_batched_alert(user_id, alerts, local_today, delivery,
                                          d_now, d_last_notified)
              IN  /\ d_last_notified' = r.last_notified
                  /\ d_history' = d_history \o r.rows
                  /\ d_messages' =
                        IF r.message # None
                        THEN Append(d_messages, [user_id |-> user_id, message |-> r.message])
                        ELSE d_messages
                  /\ d_results' =
                        Append(d_results,
                               [user_id  |-> user_id,
                                today    |-> local_today,
                                returned |-> r.returned])
    /\ d_queue' = Tail(d_queue)
    /\ UNCHANGED <<d_user_alerts, d_now, d_today>>
    /\ UNCHANGED <<engine_vars, fetch_vars, limiter_vars, store_vars, service_vars,
                   calc_vars, jobs_vars, callers_vars>>

\* Time passes.
DispatchTick ==
    /\ d_now <= MaxDispatchTicks
    /\ d_now' = d_now + 1
    /\ UNCHANGED <<d_user_alerts, d_queue, d_last_notified, d_history, d_messages,
                   d_results, d_today>>
    /\ UNCHANGED <<engine_vars, fetch_vars, limiter_vars, store_vars, service_vars,
                   calc_vars, jobs_vars, callers_vars>>

NextDispatch ==
    \/ DispatchUser
    \/ DispatchTick

SpecDispatch == InitDispatch /\ [][NextDispatch]_vars

(***************************************************************************)
(* The ways a deployment starts check_watchlists: the cron job of the      *)
(* scheduler each worker process sets up (src/utils/scheduler.py), which   *)
(* runs features.periodic_checker, the subject of Spec; and the manual     *)
(* trigger POST /admin/check (src/routes/admin_routes.py), which           *)
(* AdminService.trigger_stock_check serves with the PeriodicChecker of     *)
(* src/periodic_checker.py.  Every symbol is watched by every user.        *)
(***************************************************************************)
MaxRuns == 2

\* CronTrigger(hour=1, minute=0, day_of_week="mon,tue,wed,thu,sun", UTC).
cron_days == {0, 1, 2, 3, 6}

\* The parameters WebhookHandler.send_alert declares.
send_alert_parameters ==
    {"user_id", "symbol", "price", "percentile", "percentile_16", "percentile_84"}

\* The keywords _process_symbol of src/periodic_checker.py passes to it.
legacy_send_alert_keywords ==
    {"user_id", "symbol", "price", "percentile", "percentile_5", "percentile_95"}

\* A call with a keyword the function does not declare raises TypeError
\* before the body of the function runs.
CallRaisesTypeError(keywords, parameters) == ~(keywords \subseteq parameters)

\* What a fresh stock_cache row can hold when the manual run reads it: no
\* row, the flat payload of the batch job, the nested payload of the service.
LegacyCacheKinds == {"none", "flat", "nested"}

\* The cache branch of _process_symbol of src/periodic_checker.py: a payload
\* without "percentiles" falls through the branch, and one whose percentiles
\* have no "p5" raises KeyError, which is caught; both go on to the fetch.
LegacyCacheBranch(kind) ==
    CASE kind = "none"   -> "fetch"
      [] kind = "flat"   -> "fetch"
      [] kind = "nested" -> "fetch"

\* What the one request of _fetch_symbol_data_tiingo gives _process_symbol:
\* nothing, fewer than 200 closes, a deviation inside the band, one outside.
LegacyFetchOutcomes == {"none", "short", "quiet", "alert"}

\* A run that has just started.
NewRun(origin, worker, weekday, pc0) ==
    [origin       |-> origin,
     worker       |-> worker,
     pc           |-> pc0,
     weekday      |-> weekday,
     idx          |-> 0,
     fetches      |-> 0,
     cache_writes |-> 0,
     history_rows |-> 0,
     notified     |-> [u \in Users |-> 0],
     errors       |-> 0]

\* WebhookHandler.send_alert for each of the users, were the call accepted:
\* on a local day outside Mon-Thu and Sunday a "skipped" row per user, else
\* a message and a row per user.
legacy_send_alerts(run, user_ids, local_today) ==
    IF local_today \notin valid_days
    THEN [run EXCEPT !.history_rows = @ + Cardinality(user_ids)]
    ELSE [run EXCEPT !.history_rows = @ + Cardinality(user_ids),
                     !.notified = [u \in Users |->
                                      IF u \in user_ids THEN @[u] + 1 ELSE @[u]]]

\* _process_symbol of src/periodic_checker.py for one symbol.  There is no
\* day gate before it.  The cache is updated before the alert decision; the
\* first send_alert call raises TypeError, which the handler of
\* _process_symbol logs.
legacy_process_symbol(run, user_ids, kind, outcome, local_today) ==
    IF LegacyCacheBranch(kind) # "fetch"
    THEN run
    ELSE IF outcome \in {"none", "short"}
    THEN [run EXCEPT !.fetches = @ + 1]
    ELSE IF outcome = "quiet"
    THEN [run EXCEPT !.fetches = @ + 1, !.cache_writes = @ + 1]
    ELSE IF CallRaisesTypeError(legacy_send_alert_keywords, send_alert_parameters)
    THEN [run EXCEPT !.fetches = @ + 1, !.cache_writes = @ + 1, !.errors = @ + 1]
    ELSE legacy_send_alerts(
             [run EXCEPT !.fetches = @ + 1, !.cache_writes = @ + 1],
             user_ids, local_today)

RunIds == 1..Len(j_runs)

InitJobs ==
    /\ j_runs = <<>>
    /\ j_weekday \in Weekdays
    /\ EngineIdle /\ FetchIdle /\ LimiterIdle /\ StoreIdle /\ ServiceIdle
    /\ CalcIdle /\ DispatchIdle /\ CallersIdle

\* The cron trigger fires in the scheduler of a worker.  A scheduler keeps
\* one instance of its own job at a time; nothing relates it to the
\* schedulers of other workers or to the manual trigger.
ScheduledJob ==
    /\ Len(j_runs) < MaxRuns
    /\ j_weekday \in cron_days
    /\ \E w \in Workers :
          /\ \A i \in RunIds :
                ~(j_runs[i].origin = "scheduled" /\ j_runs[i].worker = w
                  /\ j_runs[i].pc = "running")
          /\ j_runs' = Append(j_runs, NewRun("scheduled", w, j_weekday, "running"))
    /\ UNCHANGED j_weekday
    /\ UNCHANGED <<engine_vars, fetch_vars, limiter_vars, store_vars, service_vars,
                   calc_vars, dispatch_vars, callers_vars>>

\* check_watchlists returns to job_wrapper.
ScheduledJobReturns ==
    /\ \E i \in RunIds :
          /\ j_runs[i].origin = "scheduled"
          /\ j_runs[i].pc = "running"
          /\ j_runs' = [j_runs EXCEPT ![i].pc = "done"]
    /\ UNCHANGED j_weekday
    /\ UNCHANGED <<engine_vars, fetch_vars, limiter_vars, store_vars, service_vars,
                   calc_vars, dispatch_vars, callers_vars>>

\* POST /admin/check reaches trigger_stock_check in a worker: the import of
\* periodic_checker succeeds or raises, and on success check_watchlists of a
\* new PeriodicChecker starts in the request thread.
ManualTrigger ==
    /\ Len(j_runs) < MaxRuns
    /\ \E w \in Workers, imported \in BOOLEAN :
          j_runs' = Append(j_runs,
                       NewRun("manual", w, j_weekday,
                              IF imported THEN "running" ELSE "raised"))
    /\ UNCHANGED j_weekday
    /\ UNCHANGED <<engine_vars, fetch_vars, limiter_vars, store_vars, service_vars,
                   calc_vars, dispatch_vars, callers_vars>>

\* One pass of the loop of the manual run: _process_symbol and the delay;
\* after the last symbol check_watchlists returns.
ManualProcessSymbol ==
    /\ \E i \in RunIds :
          /\ j_runs[i].origin = "manual"
          /\ j_runs[i].pc = "running"
          /\ \E kind \in LegacyCacheKinds, outcome \in LegacyFetchOutcomes,
                local_today \in LocalDays(j_weekday) :
                \E r \in {legacy_process_symbol(j_runs[i], Users, kind, outcome,
                                                local_today)} :
                   j_runs' = [j_runs EXCEPT ![i] =
                                [r EXCEPT !.idx = @ + 1,
                                          !.pc = IF r.idx + 1 = MaxSymbols
                                                 THEN "done" ELSE "running"]]
    /\ UNCHANGED j_weekday
    /\ UNCHANGED <<engine_vars, fetch_vars, limiter_vars, store_vars, service_vars,
                   calc_vars, dispatch_vars, callers_vars>>

NextJobs ==
    \/ ScheduledJob
    \/ ScheduledJobReturns
    \/ ManualTrigger
    \/ ManualProcessSymbol

SpecJobs == InitJobs /\ [][NextJobs]_vars

(***************************************************************************)
(* Concurrent callers of the rate limiter: web workers and the batch job,  *)
(* each doing can_make_request, then its upstream request, then            *)
(* record_request, over the one api_requests table.  Every read and every  *)
(* insert succeeds and is a transaction of its own; the clock stands at    *)
(* 22:59.                                                                  *)
(***************************************************************************)
CallersInstant == 2

\* Tables gated callers can have filled by 22:59, up to one free slot of the
\* hour and of the day.
CallerLogs ==
    { [i \in InstantIds |-> IF i = 1 THEN early ELSE IF i = 2 THEN late ELSE 0] :
        early \in {0, 932}, late \in {0, 46, 47} }

InitCallers ==
    /\ q_pc = [w \in Workers |-> "idle"]
    /\ q_log \in CallerLogs
    /\ q_left = [w \in Workers |-> MaxCalls]
    /\ EngineIdle /\ FetchIdle /\ LimiterIdle /\ StoreIdle /\ ServiceIdle
    /\ CalcIdle /\ DispatchIdle /\ JobsIdle

\* wait_if_needed: can_make_request reads the two counts and answers; a
\* caller that is refused gives the call up.
CallerCanMakeRequest ==
    /\ \E w \in Workers :
          /\ q_pc[w] = "idle"
          /\ q_left[w] > 0
          /\ q_left' = [q_left EXCEPT ![w] = @ - 1]
          /\ q_pc' = [q_pc EXCEPT ![w] =
                IF can_make_request(q_log, Instants[CallersInstant], TRUE, TRUE).allowed
                THEN "admitted" ELSE "idle"]
    /\ UNCHANGED q_log
    /\ UNCHANGED <<engine_vars, fetch_vars, limiter_vars, store_vars, service_vars,
                   calc_vars, dispatch_vars, jobs_vars>>

\* The upstream request of an admitted caller.
CallerUpstreamRequest ==
    /\ \E w \in Workers :
          /\ q_pc[w] = "admitted"
          /\ q_pc' = [q_pc EXCEPT ![w] = "responded"]
    /\ UNCHANGED <<q_log, q_left>>
    /\ UNCHANGED <<engine_vars, fetch_vars, limiter_vars, store_vars, service_vars,
                   calc_vars, dispatch_vars, jobs_vars>>

\* record_request: one INSERT into api_requests.
CallerRecordRequest ==
    /\ \E w \in Workers :
          /\ q_pc[w] = "responded"
          /\ q_log' = record_api_request(q_log, CallersInstant, TRUE)
          /\ q_pc' = [q_pc EXCEPT ![w] = "idle"]
    /\ UNCHANGED q_left
    /\ UNCHANGED <<engine_vars, fetch_vars, limiter_vars, store_vars, service_vars,
                   calc_vars, dispatch_vars, jobs_vars>>

NextCallers ==
    \/ CallerCanMakeRequest
    \/ CallerUpstreamRequest
    \/ CallerRecordRequest

SpecCallers == InitCallers /\ [][NextCallers]_vars

(***************************************************************************)
(* Properties.                                                             *)
(***************************************************************************)
WatchersOf(s) ==
    {watchlist[i].user_id : i \in {j \in 1..Len(watchlist) : watchlist[j].symbol = s}}

HasAlertFor(u, s) == \E i \in 1..Len(user_alerts[u]) : user_alerts[u][i].symbol = s

RowsFor(u, s) ==
    {i \in 1..Len(alert_history) :
        alert_history[i].user_id = u /\ alert_history[i].symbol = s}

\* The run has passed the day gate (an allowed weekday) and has ended.
GatedRunEnded == pc = "done" /\ today \in {0, 1, 2, 3, 6}

\* C1: a run started on Friday or Saturday (UTC) ends at once: no fetch,
\* no cache write, no notifier call, and no exception on the way.
C1_DayGateSkips ==
    today \in {4, 5} =>
        /\ pc = "done"
        /\ \A s \in Symbols : fetches[s] = 0 /\ cache_writes[s] = 0
        /\ \A u \in Users : notifier_calls[u] = 0
        /\ processed = <<>>
        /\ alert_history = <<>>
        /\ ~error_logged

\* A run skipped on a Friday although users watch symbols.
C1_Witness == today = 4 /\ pc = "done" /\ watchlist # <<>>

\* C2 (as claimed): per run each symbol is fetched and upserted at most once,
\* and a symbol two users watch that triggers after a cache miss ends the run
\* with one fetch, one upsert and two alert-history rows, one per user.
C2_FanOutDedup ==
    /\ \A s \in Symbols : fetches[s] <= 1 /\ cache_writes[s] <= 1
    /\ GatedRunEnded =>
          \A i \in 1..Len(processed) :
              LET e == processed[i]
              IN  (e.path = "fresh" /\ ~e.hit /\ e.alert # None
                      /\ Cardinality(WatchersOf(e.symbol)) = 2) =>
                      /\ fetches[e.symbol] = 1
                      /\ cache_writes[e.symbol] = 1
                      /\ \A u \in WatchersOf(e.symbol) :
                            Cardinality(RowsFor(u, e.symbol)) = 1

\* C3 (as claimed): when the run is over the notifier has been called exactly
\* once for every user with a pending alert and never for another user.
C3_OneCallPerUser ==
    GatedRunEnded =>
        \A u \in Users :
            notifier_calls[u] = IF user_alerts[u] # <<>> THEN 1 ELSE 0

\* C4 (as claimed): when the run is over every (user, symbol) of a batch has
\* exactly one alert-history row, 'sent' or 'failed', and no other pair has one.
C4_OneRowPerAlert ==
    GatedRunEnded =>
        \A u \in Users, s \in Symbols :
            IF HasAlertFor(u, s)
            THEN /\ Cardinality(RowsFor(u, s)) = 1
                 /\ \A i \in RowsFor(u, s) :
                       alert_history[i].status \in {"sent", "failed"}
            ELSE RowsFor(u, s) = {}

\* C5: for every symbol a run evaluates, on the cache branch and on the
\* fresh branch, the symbol yields an alert (returned, and appended for each
\* of its users) exactly when its deviation d is <= p16 or >= p84, the
\* boundaries included; the alert carries d, p16 and p84.
C5_TriggerIffOutsideBand ==
    \A i \in 1..Len(processed) :
        LET e == processed[i]
            row == stock_cache[e.symbol]
            m == MetricsOf[e.fetched]
            evaluated ==
                \/ e.path = "cache"
                \/ e.path = "fresh" /\ e.fetched \in FetchedSeries /\ m.n_valid > 0
            d == IF e.path = "cache"
                 THEN PctDiff(row.last_price, row.ma_200)
                 ELSE m.current_pct_diff
            p16 == IF e.path = "cache"
                   THEN row.data_json.percentiles.p16 ELSE m.percentile_16
            p84 == IF e.path = "cache"
                   THEN row.data_json.percentiles.p84 ELSE m.percentile_84
        IN  IF evaluated
            THEN /\ (e.alert # None) <=> (d <= p16 \/ d >= p84)
                 /\ e.alert # None =>
                       /\ e.alert.percentile = d
                       /\ e.alert.percentile_16 = p16
                       /\ e.alert.percentile_84 = p84
                 /\ \A u \in WatchersOf(e.symbol) :
                       HasAlertFor(u, e.symbol) <=> (d <= p16 \/ d >= p84)
            ELSE /\ e.alert = None
                 /\ \A u \in Users : ~HasAlertFor(u, e.symbol)

\* A fresh fetch whose deviation equals p84 exactly (and lies above p16)
\* has produced an alert for a user.
C5_Witness ==
    \E i \in 1..Len(processed) :
        LET e == processed[i]
        IN  /\ e.path = "fresh"
            /\ e.fetched \in FetchedSeries
            /\ MetricsOf[e.fetched].n_valid > 0
            /\ MetricsOf[e.fetched].current_pct_diff = MetricsOf[e.fetched].percentile_84
            /\ MetricsOf[e.fetched].current_pct_diff > MetricsOf[e.fetched].percentile_16
            /\ \E u \in Users : HasAlertFor(u, e.symbol)

\* C6 (as claimed): a run that passed the day gate with a non-empty
\* watchlist ends only after every symbol has been processed and the
\* accumulator has been handed on, not in the except clause.
C6_RunReachesDispatch ==
    (GatedRunEnded /\ watchlist # <<>>) =>
        /\ Len(processed) = Len(symbol_user_map)
        /\ ~error_logged

\* C7 (as claimed): when _process_symbol has caught an exception for one
\* symbol, the run still processes every later symbol and ends normally.
C7_ExceptionIsLocal ==
    (GatedRunEnded /\ \E i \in 1..Len(processed) : processed[i].raised) =>
        /\ Len(processed) = Len(symbol_user_map)
        /\ ~error_logged

\* C8 (as claimed): a symbol for which get_fresh_cache returned a row is
\* decided from that row, with no fetch and no cache write in the run.
C8_HitMeansNoFetch ==
    \A i \in 1..Len(processed) :
        processed[i].hit =>
            /\ processed[i].path = "cache"
            /\ fetches[processed[i].symbol] = 0
            /\ cache_writes[processed[i].symbol] = 0

\* C9 (as claimed): a symbol whose fetch returned None gives no alert and
\* no cache write, and the run goes on to the symbols after it.
C9_FetchNoneSkipsSymbol ==
    \A i \in 1..Len(processed) :
        (processed[i].path = "fresh" /\ processed[i].fetched = None) =>
            /\ processed[i].alert = None
            /\ \A u \in Users : ~HasAlertFor(u, processed[i].symbol)
            /\ cache_writes[processed[i].symbol] = 0
            /\ GatedRunEnded => Len(processed) = Len(symbol_user_map)

C11_FewDeviationsNoAlert ==
    \A i \in 1..Len(processed) :
        LET e == processed[i]
        IN  (e.path = "fresh" /\ e.fetched \in FetchedSeries
                /\ MetricsOf[e.fetched].n_valid < 20) =>
                /\ e.alert = None
                /\ \A u \in Users : ~HasAlertFor(u, e.symbol)

\* The requests and the sleeps of the call so far, as positions of t_trace.
GetsAt == {i \in 1..Len(t_trace) : t_trace[i].ev = "get"}

SleepsAt == {i \in 1..Len(t_trace) : t_trace[i].ev = "sleep"}

\* C12 (as claimed): a call with max_retries = 3 that met 429 on every
\* attempt has slept three times, each time longer than before, and has
\* returned None on its fourth request.
C12_ThreeDelaysFourAttempts ==
    (/\ t_pc = "done"
     /\ t_max = max_retries
     /\ \A i \in GetsAt : t_trace[i].outcome = "429") =>
        /\ Cardinality(SleepsAt) = 3
        /\ Cardinality(GetsAt) = 4
        /\ \A i, j \in SleepsAt : i < j => t_trace[i].delay < t_trace[j].delay
        /\ t_result = None

\* C13: a request is followed by a backoff and another attempt exactly when
\* its outcome is transient (429, 5xx, connection error, timeout) and it
\* was not the last of the max_retries attempts; any other failure ends the
\* call there with None and no sleep (a 404 on the first attempt: one
\* request in all), data ends it with the series, and a transient outcome
\* of the last attempt ends it with None.
C13_RetryIffTransient ==
    /\ Cardinality(GetsAt) <= 3
    /\ \A i \in SleepsAt : i > 1 /\ t_trace[i - 1].ev = "get"
    /\ \A i \in GetsAt :
          LET o == t_trace[i].outcome
              k == Cardinality({j \in GetsAt : j <= i})
              last == i = Len(t_trace)
          IN  IF o \in {"429", "500", "connection_error", "timeout"} /\ k < t_max
              THEN /\ ~last
                   /\ t_trace[i + 1].ev = "sleep"
                   /\ (i + 1 = Len(t_trace)) => t_pc = "loop"
                   /\ (i + 1 < Len(t_trace)) => t_trace[i + 2].ev = "get"
              ELSE /\ last
                   /\ t_pc = "done"
                   /\ t_result = IF o = "200_data" THEN t_trace[i].data ELSE None

\* A call that met two transient failures, backed off twice and got its
\* series on the third attempt.
C13_Witness ==
    /\ t_pc = "done"
    /\ Len(t_trace) = 5
    /\ t_trace[1].outcome = "429"
    /\ t_trace[3].outcome = "timeout"
    /\ t_result \in FetchedSeries

\* C17 (as claimed): every request of the call comes right after a
\* can_make_request that allowed it and is followed by a record_request.
C17_EveryGetIsGated ==
    \A i \in GetsAt :
        /\ i > 1
        /\ t_trace[i - 1].ev = "can_make_request"
        /\ t_trace[i - 1].allowed
        /\ i < Len(t_trace)
        /\ t_trace[i + 1].ev = "record_request"

\* The rows the limiter counts for an answer given at instant now over log,
\* when its reads succeed.
HourlyRows(log, now) == _get_hourly_count(log, Instants[now], TRUE)

DailyRows(log, now) == _get_daily_count(log, Instants[now], TRUE)

\* The rows of the w minutes that end at minute t.
SlidingRows(log, t, w) ==
    SumRows(log, {i \in InstantIds : Instants[i] > t - w /\ Instants[i] <= t})

\* C14: with both reads succeeding, can_make_request refuses (with a
\* reason) exactly when the hourly count is >= 48 or the daily count is
\* >= 980 and allows (with no reason) otherwise; get_usage_stats reports
\* the limits 48 and 980.
C14_BlocksExactlyAtSafeLimits ==
    /\ (l_answer # None /\ l_answer.hourly_ok /\ l_answer.daily_ok) =>
          LET over == \/ HourlyRows(l_answer.log, l_answer.now) >= 48
                      \/ DailyRows(l_answer.log, l_answer.now) >= 980
          IN  /\ l_answer.answer.allowed <=> ~over
              /\ (l_answer.answer.reason = "none") <=> ~over
    /\ l_usage # None =>
          /\ l_usage.stats.hourly_limit = 48
          /\ l_usage.stats.daily_limit = 980

\* The 48th row of the hour has been recorded and the next caller is
\* refused, with the day still below its limit.
C14_Witness ==
    /\ l_answer # None
    /\ l_answer.hourly_ok /\ l_answer.daily_ok
    /\ HourlyRows(l_answer.log, l_answer.now) = 48
    /\ DailyRows(l_answer.log, l_answer.now) < 980
    /\ ~l_answer.answer.allowed

\* C15 (as claimed): whenever a read of the counts failed, can_make_request
\* allowed the call with no reason; record_request never raises.
C15_AnyReadFailureAllows ==
    /\ (l_answer # None /\ (~l_answer.hourly_ok \/ ~l_answer.daily_ok)) =>
          /\ l_answer.answer.allowed
          /\ l_answer.answer.reason = "none"
    /\ l_record # None => ~l_record.raised

\* C15 (amended): a count whose read failed is taken as 0 and the other
\* count still decides; when both reads failed the call is allowed with no
\* reason; record_request returns normally whether or not its insert
\* succeeded, and a failed insert leaves the table as it was.
C15_FailedReadCountsAsZero ==
    /\ l_answer # None =>
          LET h == IF l_answer.hourly_ok THEN HourlyRows(l_answer.log, l_answer.now) ELSE 0
              d == IF l_answer.daily_ok THEN DailyRows(l_answer.log, l_answer.now) ELSE 0
          IN  /\ l_answer.answer.allowed <=> (h < 48 /\ d < 980)
              /\ (~l_answer.hourly_ok /\ ~l_answer.daily_ok) =>
                    /\ l_answer.answer.allowed
                    /\ l_answer.answer.reason = "none"
    /\ l_record # None =>
          /\ ~l_record.raised
          /\ SumRows(l_log, InstantIds) =
                SumRows(l_record.before, InstantIds) + (IF l_record.written THEN 1 ELSE 0)

\* Both reads failed in an hour that already holds 48 rows, and the call
\* was allowed.
C15_Witness ==
    /\ l_answer # None
    /\ ~l_answer.hourly_ok /\ ~l_answer.daily_ok
    /\ HourlyRows(l_answer.log, l_answer.now) >= 48
    /\ l_answer.answer.allowed

\* C16 (as claimed): the counts the limiter reports are the rows of the 60
\* minutes and of the 24 hours that end now, and under gated callers no 60
\* minutes hold more than 48 rows and no 24 hours more than 980.  (The
\* first instant stands for several earlier hours, so the 60-minute bound
\* is stated for the instants after it.)
C16_SlidingWindows ==
    /\ (l_usage # None /\ l_usage.hourly_ok /\ l_usage.daily_ok) =>
          /\ l_usage.stats.hourly_used =
                SlidingRows(l_usage.log, Instants[l_usage.now], 60)
          /\ l_usage.stats.daily_used =
                SlidingRows(l_usage.log, Instants[l_usage.now], 1440)
    /\ \A i \in InstantIds \ {1} : SlidingRows(l_log, Instants[i], 60) <= 48
    /\ \A i \in InstantIds : SlidingRows(l_log, Instants[i], 1440) <= 980

\* C18 (as claimed): get_fresh_cache answers with the stored row of the
\* symbol, however the caller spells it, when the row's age is at most
\* max_age_hours, the age equal to max_age_hours included, and with nothing
\* when the row is older or absent.
C18_FreshUpToMaxAge ==
    c_read # None =>
        LET row == c_read.table[upper(c_read.symbol)]
        IN  c_read.answer =
                IF row # NoRow /\ row.age <= c_read.max_age_hours THEN row ELSE None

\* C19 (as claimed): a symbol whose get_fresh_cache call answered with a
\* row (a call within the TTL window) causes no upstream call in the run,
\* and the call leaves the stored row as it was.
C19_HitCausesNoUpstreamCall ==
    \A i \in 1..Len(processed) :
        processed[i].hit =>
            /\ fetches[processed[i].symbol] = 0
            /\ stock_cache[processed[i].symbol] # NoRow

\* The committed upserts whose key is k.
WritersOf(k) ==
    {w \in Workers : c_calls[w] # Ready /\ upper(c_calls[w].symbol) = k}

\* C20: after any interleaving of the workers' upserts, a symbol has no
\* row under any key but its upper-case one, and the row it has there holds
\* the price, the moving average, the payload and the write time of one
\* upsert, the last one committed for the symbol.
C20_RowFromLastUpsert ==
    \A k \in Texts :
        IF WritersOf(k) = {}
        THEN c_table[k] = NoRow
        ELSE LET w == CHOOSE x \in WritersOf(k) :
                          \A v \in WritersOf(k) : c_calls[v].seq <= c_calls[x].seq
             IN  c_table[k] = [last_price |-> PriceOf(w),
                               ma_200     |-> Ma200Of(w),
                               data_json  |-> DataJsonOf(w),
                               age        |-> c_now - c_calls[w].at]

\* Two workers have upserted the same symbol, spelled differently, an hour
\* apart.
C20_Witness ==
    /\ \A w \in {1, 2} : c_calls[w] # Ready
    /\ c_calls[1].symbol = "aapl"
    /\ c_calls[2].symbol = "AAPL"
    /\ c_calls[1].at < c_calls[2].at

\* The keys of the payload calculate_metrics stores.
SchemaKeys ==
    {"price", "ma_200", "percentiles", "previous_close", "time_series", "last_updated"}

\* C21 (as claimed): every payload in the stock cache has the one schema
\* price, ma_200, percentiles {p16, p84}, previous_close, time_series and
\* last_updated, and the engine's cache-hit path can read every fresh row.
C21_OneStableSchema ==
    \A s \in Symbols :
        stock_cache[s] # NoRow =>
            /\ DOMAIN stock_cache[s].data_json = SchemaKeys
            /\ DOMAIN stock_cache[s].data_json.percentiles = {"p16", "p84"}
            /\ LET cached_data == get_fresh_cache(stock_cache, s, CACHE_HOURS)
               IN  cached_data # None => CacheBranch(s, cached_data).returned

\* The readers of the stock cache.
CacheReaders == {"_process_symbol", "calculate_metrics", "get_stock_data"}

\* C22 (as claimed): a reader that finds a fresh row whose payload cannot
\* be decoded, or lacks fields of the schema, treats it as a cache miss: no
\* exception leaves the reader, and it makes the upstream fetch.
C22_BadPayloadIsAMiss ==
    (/\ s_last # None
     /\ s_last.op \in CacheReaders
     /\ s_last.op = "calculate_metrics" => s_last.period \in valid_periods
     /\ s_last.seen.row
     /\ ~s_last.seen.decodable \/ ~(SchemaKeys \subseteq s_last.seen.keys))
        => ~s_last.raised /\ s_last.fetched = 1

\* C23: trading-stats records are keyed by (symbol, period) and have their
\* own freshness.  A call of calculate_trading_stats that finds the fresh
\* record of its key answers 200 with the stored statistics, makes no
\* upstream call, derives nothing and writes to neither table; on a miss it
\* writes at most the record of its own key, and only statistics it has
\* just derived; no other call writes a trading-stats record.
C23_StatsKeyedAndIndependent ==
    [][ s_calls' # s_calls =>
          LET key == <<s_last'.symbol, s_last'.period>>
              fresh == /\ key \in DOMAIN s_stats
                       /\ s_stats[key] # NoRow
                       /\ s_stats[key].age < CACHE_HOURS
          IN  IF s_last'.op # "calculate_trading_stats"
              THEN s_stats' = s_stats
              ELSE IF fresh
              THEN /\ s_last'.status = 200
                   /\ s_last'.body = s_stats[key].stats_json
                   /\ s_last'.fetched = 0
                   /\ ~s_last'.computed
                   /\ s_stats' = s_stats
                   /\ s_cache' = s_cache
              ELSE /\ \A k \in DOMAIN s_stats : k # key => s_stats'[k] = s_stats[k]
                   /\ IF s_last'.computed
                      THEN s_stats'[key] = [stats_json |-> s_last'.body, age |-> 0]
                      ELSE s_stats' = s_stats ]_vars

\* C23 witness: a call answered from the fresh record of its key, while
\* another record of the same symbol is absent.
C23_Witness ==
    /\ s_last # None
    /\ s_last.op = "calculate_trading_stats"
    /\ s_last.stats_seen # None
    /\ s_last.status = 200
    /\ \E p \in valid_periods : s_stats[<<s_last.symbol, p>>] = NoRow

\* The 16th and 84th percentile of the deviations of a complete history.
HistoryPercentiles ==
    [f \in ServiceHistories |->
        LET v == ValidDiffs(Closes(f))
        IN  [p16 |-> Quantile(v, 16), p84 |-> Quantile(v, 84)]]

\* C24: the percentiles calculate_metrics returns are those of the complete
\* history of the symbol, whatever valid period was asked for and whether
\* the answer came from the fetch or from the cache; so they are the same
\* for 1y, 3y, 5y and max.
C24_PercentilesIgnorePeriod ==
    (/\ s_last # None
     /\ s_last.op = "calculate_metrics"
     /\ s_last.status = 200)
        => /\ s_upstream # None
           /\ s_last.percentiles = HistoryPercentiles[s_upstream]

\* C24 witness: a one-year request answered from the cache with fewer
\* entries than the history has.
C24_Witness ==
    /\ s_last # None
    /\ s_last.op = "calculate_metrics"
    /\ s_last.status = 200
    /\ s_last.period = "1y"
    /\ s_last.fetched = 0
    /\ s_last.body < s_upstream.n

PercentileFunctions == {"calculate_metrics", "_process_symbol"}

\* C25: for every deviation column with at least 20 defined points, the
\* percentiles are computed and satisfy p16 <= p84, in calculate_metrics and
\* in _process_symbol alike.
C25_P16AtMostP84 ==
    (k_op \in PercentileFunctions /\ k_out # None /\ Len(DropNa(k_in)) >= 20) =>
        /\ k_out.enough
        /\ k_out.p16 <= k_out.p84

\* C25: a column with an undefined row and at least 20 defined ones, whose
\* two percentiles differ.
C25_Witness ==
    /\ k_op = "calculate_metrics"
    /\ k_out # None
    /\ k_in[1].pct_diff = None
    /\ Len(DropNa(k_in)) >= 20
    /\ k_out.enough
    /\ k_out.p16 < k_out.p84

\* The total of the closes s[j], j in window, counted value by value.
RECURSIVE TotalByValue(_, _, _)
TotalByValue(s, window, values) ==
    IF values = {} THEN 0
    ELSE LET v == CHOOSE x \in values : TRUE
         IN  v * Cardinality({j \in window : s[j] = v})
               + TotalByValue(s, window, values \ {v})

WindowTotal(s, i) ==
    TotalByValue(s, (i - WINDOW + 1)..i, {s[j] : j \in (i - WINDOW + 1)..i})

\* C26: for a series of at least 200 closes the moving average and the
\* deviation are undefined on the first 199 rows; on every later row the
\* moving average is the mean of the 200 closes ending there (kept as their
\* total) and the deviation is (price - ma) / ma * 100, both defined.
C26_MovingAverageAndDeviation ==
    (k_op = "indicators" /\ k_out # None /\ Len(k_in) >= WINDOW) =>
        /\ Len(k_out.columns) = Len(k_in)
        /\ \A i \in 1..Len(k_in) :
              LET row == k_out.columns[i]
                  total == WindowTotal(k_in, i)
              IN  IF i < WINDOW
                  THEN row.ma_200 = None /\ row.pct_diff = None
                  ELSE /\ row.ma_200 = Num(total)
                       /\ row.pct_diff =
                             Num(((k_in[i] * WINDOW - total) * 100 * SCALE) \div total)

\* C26: a series longer than the window whose average moves between the
\* first two rows that have one, one of them above and one below its price.
C26_Witness ==
    /\ k_op = "indicators"
    /\ k_out # None
    /\ Len(k_in) > WINDOW
    /\ k_out.columns[WINDOW - 1].ma_200 = None
    /\ k_out.columns[WINDOW].ma_200 # k_out.columns[WINDOW + 1].ma_200
    /\ \E i, j \in WINDOW..Len(k_in) :
          /\ k_out.columns[i].pct_diff.value < 0
          /\ k_out.columns[j].pct_diff.value > 0

\* Whether element i of the data handed to _calculate_streaks satisfies the
\* condition handed with it.
Satisfies(i) == Holds(k_in.condition_func, k_in.data[i])

\* The positions where a maximal run of satisfying elements starts.
RunStarts ==
    {i \in 1..Len(k_in.data) : Satisfies(i) /\ (i = 1 \/ ~Satisfies(i - 1))}

\* The length of the maximal run that starts at i.
RunLength(i) ==
    CHOOSE l \in 1..Len(k_in.data) :
        /\ \A j \in i..(i + l - 1) : j <= Len(k_in.data) /\ Satisfies(j)
        /\ (i + l > Len(k_in.data) \/ ~Satisfies(i + l))

\* The k-th start, in order.
KthRunStart(k) ==
    CHOOSE i \in RunStarts : Cardinality({j \in RunStarts : j < i}) = k - 1

\* C27: _calculate_streaks returns, in order, the lengths of exactly the
\* maximal runs of elements satisfying the condition: each at least 1,
\* their total the number of satisfying elements, the run that reaches the
\* end included, and the empty list for empty data.
C27_StreaksAreMaximalRuns ==
    (k_op = "_calculate_streaks" /\ k_out # None) =>
        LET streaks == k_out.streaks
        IN  /\ Len(streaks) = Cardinality(RunStarts)
            /\ \A k \in 1..Len(streaks) :
                  /\ streaks[k] = RunLength(KthRunStart(k))
                  /\ streaks[k] >= 1
            /\ SumRange(streaks, 1, Len(streaks))
                  = Cardinality({i \in 1..Len(k_in.data) : Satisfies(i)})
            /\ (k_in.data = <<>> => streaks = <<>>)

\* C27: two runs, the second of two elements or more and reaching the end
\* of the data.
C27_Witness ==
    /\ k_op = "_calculate_streaks"
    /\ k_out # None
    /\ Len(k_out.streaks) >= 2
    /\ Satisfies(Len(k_in.data))
    /\ k_out.streaks[Len(k_out.streaks)] >= 2

\* The watchlist with every is_owned flag cleared.
EraseOwnership(w) == [i \in 1..Len(w) |-> [w[i] EXCEPT !.is_owned = FALSE]]

\* A grouped watchlist without its flags: the symbols in order, each with
\* its users in order.
Flagless(map) ==
    [i \in 1..Len(map) |->
        [symbol   |-> map[i].symbol,
         user_ids |-> [k \in 1..Len(map[i].user_data_list) |->
                          map[i].user_data_list[k].user_id]]]

\* The (user, symbol) pairs of the accumulated alerts.
AlertPairs ==
    UNION { { <<u, user_alerts[u][i].symbol>> : i \in 1..Len(user_alerts[u]) } :
                u \in Users }

\* The symbols _process_symbol returned an alert for in this run.
TriggeredSymbols ==
    { processed[i].symbol : i \in {j \in 1..Len(processed) : processed[j].alert # None} }

\* The flag of the user's own watchlist row for the symbol.
OwnFlag(u, s) ==
    LET i == CHOOSE j \in 1..Len(watchlist) :
                 watchlist[j].user_id = u /\ watchlist[j].symbol = s
    IN  watchlist[i].is_owned

\* C28: is_owned does not enter the trigger logic.  The grouped symbols and
\* users, the fetches, the cache writes and the set of (user, symbol) alerts
\* of a run are those of the watchlist with its flags cleared, so two runs
\* that differ only in flags agree on them; and every accumulated alert
\* carries the flag of its user's own row for the symbol.
C28_OwnershipOnlyTagsAlerts ==
    /\ symbol_user_map # <<>> =>
          Flagless(symbol_user_map) = Flagless(GroupBySymbol(EraseOwnership(watchlist)))
    /\ AlertPairs = { <<u, s>> \in Users \X Symbols :
                         s \in TriggeredSymbols /\ u \in WatchersOf(s) }
    /\ \A s \in Symbols :
          /\ fetches[s] =
                Cardinality({i \in 1..Len(processed) :
                                processed[i].symbol = s /\ processed[i].path = "fresh"})
          /\ cache_writes[s] <= fetches[s]
    /\ \A u \in Users : \A i \in 1..Len(user_alerts[u]) :
          user_alerts[u][i].is_owned = OwnFlag(u, user_alerts[u][i].symbol)

\* C28: two users watch the same symbol, one owning it and one not, and
\* both hold its alert.
C28_Witness ==
    \E s \in Symbols : \E u, v \in Users :
        /\ <<u, s>> \in AlertPairs /\ <<v, s>> \in AlertPairs
        /\ OwnFlag(u, s) /\ ~OwnFlag(v, s)

\* A notification of the current run has happened.
Notified == (\E u \in Users : notifier_calls[u] > 0) \/ alert_history # <<>>

\* C30: the symbol loop only accumulates.  A run has neither called the
\* notifier nor written alert history before every symbol of the run has
\* been processed, and once it has notified it fetches no more and writes
\* no more cache rows.
C30_LoopOnlyAccumulates ==
    /\ [](Notified =>
            /\ pc \in {"dispatch", "done"}
            /\ Len(processed) = Len(symbol_user_map))
    /\ [][(Notified /\ Notified') =>
            /\ fetches' = fetches
            /\ cache_writes' = cache_writes
            /\ stock_cache' = stock_cache]_vars

\* C30: the loop has fetched, written the cache and accumulated an alert
\* for the first of two symbols, and nobody has been notified.
C30_Witness ==
    /\ pc = "delay"
    /\ Len(symbol_user_map) = 2
    /\ idx = 1
    /\ \E s \in Symbols : fetches[s] = 1 /\ cache_writes[s] = 1
    /\ \E u \in Users : user_alerts[u] # <<>>
    /\ ~Notified

\* The users a message was delivered to.
DeliveredTo == {d_messages[i].user_id : i \in 1..Len(d_messages)}

C31_RunErrorEndsRun ==
    /\ [](error_logged => pc = "done")
    /\ [][(pc = "except" /\ pc' # pc) =>
            /\ pc' = "done"
            /\ error_logged'
            /\ fetches' = fetches
            /\ cache_writes' = cache_writes
            /\ stock_cache' = stock_cache
            /\ notifier_calls' = notifier_calls
            /\ alert_history' = alert_history]_vars
    /\ [][(error_logged /\ ~error_logged') => pc' = "day_gate"]_vars

\* C31: a run ended by an exception with an alert accumulated for a user
\* and nothing sent to anybody.
C31_Witness ==
    /\ error_logged
    /\ pc = "done"
    /\ \E u \in Users : user_alerts[u] # <<>>
    /\ \A u \in Users : notifier_calls[u] = 0
    /\ alert_history = <<>>

\* C32: when the upstream answers 404 for the symbol, the caller of
\* calculate_metrics receives the permanent "no data for this symbol" answer
\* (status 404), which differs from the transient "try again later" answer
\* (status 500) given once the retries are used up.
C32_NotFoundIsReportedAsNoData ==
    (/\ s_last # None
     /\ s_last.op = "calculate_metrics"
     /\ s_last.fetched = 1) =>
        /\ (s_cause = "not_found") => s_last.status = 404
        /\ (s_cause = "retries_exhausted") => s_last.status = 500

\* C33: the series _process_tiingo_data returns is strictly ascending by
\* date, oldest first and with no two rows of the same date, for every list
\* of bars, unsorted or with repeated dates.
C33_StrictlyAscendingByDate ==
    (/\ k_op = "_process_tiingo_data"
     /\ k_out # None
     /\ ~k_out.raised) =>
        \A i \in 1..(Len(k_out.rows) - 1) :
            k_out.rows[i].Date < k_out.rows[i + 1].Date

\* C34: at no time are two runs of check_watchlists active: the scheduled
\* job, the manual trigger and several workers never overlap two runs.
C34_NoOverlappingRuns ==
    Cardinality({i \in RunIds : j_runs[i].pc = "running"}) <= 1

\* C38: a check started by the manual trigger obeys the day gate and the
\* batching of a scheduled run: on a weekday outside Mon-Thu and Sunday it
\* makes no upstream fetch, no cache write and no alert-history row, and on
\* an allowed day it sends each user at most one notification.
C38_ManualTriggerObeysDayGate ==
    \A i \in RunIds :
        j_runs[i].origin = "manual" =>
            /\ (j_runs[i].weekday \notin valid_days) =>
                  /\ j_runs[i].fetches = 0
                  /\ j_runs[i].cache_writes = 0
                  /\ j_runs[i].history_rows = 0
            /\ (j_runs[i].weekday \in valid_days) =>
                  \A u \in Users : j_runs[i].notified[u] <= 1

\* C35: every call of fetch_historical_data ends, with a series or None,
\* having made at most max_retries requests and at most max_retries - 1
\* backoff sleeps, for every sequence of upstream outcomes; with
\* max_retries = 0 it makes no request and returns None.
C35_FetchEndsWithinBounds ==
    /\ [](/\ Cardinality(GetsAt) <= t_max
          /\ Cardinality(SleepsAt) <= Max0(t_max - 1)
          /\ (t_pc = "done") => t_result \in {None} \cup FetchedSeries
          /\ (t_pc = "done" /\ t_max = 0) => (t_trace = <<>> /\ t_result = None))
    /\ ((t_pc = "loop") ~> (t_pc = "done"))

\* A call that used up its three attempts on transient failures, with two
\* backoffs, and returned None.
C35_Witness ==
    /\ t_pc = "done"
    /\ t_max = max_retries
    /\ Cardinality(GetsAt) = max_retries
    /\ Cardinality(SleepsAt) = max_retries - 1
    /\ \A i \in GetsAt : t_trace[i].outcome \in {"500", "timeout"}
    /\ t_result = None

\* C36: with concurrent callers that each do can_make_request, the upstream
\* request and record_request, the requests recorded within the current
\* hour never exceed 48 and those within the current day never exceed 980.
C36_RecordedWithinSafeLimits ==
    (q_log # <<>>) =>
        /\ get_api_request_count(q_log, hour_start(Instants[CallersInstant]),
                                 Instants[CallersInstant]) <= SAFE_HOURLY_LIMIT
        /\ get_api_request_count(q_log, day_start(Instants[CallersInstant]),
                                 Instants[CallersInstant]) <= SAFE_DAILY_LIMIT

\* C37: in a run that passed the UTC day gate the notifier never suppresses
\* a batch on weekday grounds: no alert-history row has status "skipped",
\* and every user visited with pending alerts has had a delivery attempt
\* (rows with status "sent" or "failed").
C37_GateDecidedOncePerRun ==
    (d_today \in valid_days) =>
        /\ \A i \in 1..Len(d_history) : d_history[i].status # "skipped"
        /\ \A i \in 1..Len(d_results) :
              d_user_alerts[d_results[i].user_id] # <<>> =>
                  \E j \in 1..Len(d_history) :
                      /\ d_history[j].user_id = d_results[i].user_id
                      /\ d_history[j].status \in {"sent", "failed"}

\* C39: the three zones partition the analysed days: fear_days, greed_days
\* and neutral_days are each at least 0 and add up to total_days, every
\* defined deviation being counted in exactly one zone, also when p16 = p84.
C39_ZonesPartitionDays ==
    (/\ s_last # None
     /\ s_last.op = "calculate_trading_stats"
     /\ s_last.computed) =>
        /\ s_last.body.fear_days >= 0
        /\ s_last.body.greed_days >= 0
        /\ s_last.body.neutral_days >= 0
        /\ s_last.body.fear_days + s_last.body.greed_days + s_last.body.neutral_days
              = s_last.body.total_days
        /\ s_last.body.fear_days + s_last.body.greed_days <= s_last.body.total_days

\* C40: the prices averaged per zone are those of the days whose deviation
\* lies in the zone, each deviation paired with the close of its own date,
\* also when the series starts with days whose deviation is undefined.
C40_PricesPairedByDate ==
    (/\ s_last # None
     /\ s_last.op = "calculate_trading_stats"
     /\ s_last.computed) =>
        LET entries == EntriesOf[s_last.metrics.time_series][s_last.period]
            p16 == s_last.metrics.percentiles.p16
            p84 == s_last.metrics.percentiles.p84
            Own(zone) == ZonePricesByDate(entries, PricesOf(entries), DropNa(entries),
                                          p16, p84, zone)
        IN  /\ s_last.body.avg_fear_price = Own("fear")
            /\ s_last.body.avg_greed_price = Own("greed")
            /\ s_last.body.avg_neutral_price = Own("neutral")

====
